---------------------------- MODULE Spec2Model ----------------------------
(***************************************************************************)
(* Admission policies (should_accept_person) of the three scenarios and    *)
(* the play_game driver loop of the Berghain challenge client.             *)
(*                                                                         *)
(* Ratios are kept exact: a venue fill threshold t is written in permille  *)
(* (0.99 -> 990) and  admitted_count / MAX_VENUE_CAPACITY < t  becomes     *)
(* admitted_count * 1000 < t * MAX_VENUE_CAPACITY; a progress comparison   *)
(* count / min < p becomes count * 1000 < p * min.  On the integers the    *)
(* policies see, IEEE division never changes these comparisons; the float  *)
(* product min * 1.1 does, and Mul11 keeps its rounding.                   *)
(***************************************************************************)
EXTENDS Integers, Sequences, FiniteSets, TLC

VARIABLES
    scenario,                   \* which play_game.py runs: 1, 2 or 3
    constraints,                \* play_game argument
    attribute_statistics,       \* play_game argument
    pc,                         \* position of play_game
    response,                   \* last answer of decide_and_next
    status,
    person_index,
    attributes,                 \* attributes of current_person
    admitted_count,
    rejected_count,
    attribute_counts,
    well_connected_encountered,
    result,                     \* what the last decision_strategy call did
    decision_history,
    revealed,                   \* personIndex of every nextPerson a response carried
    invoked,                    \* personIndex of every decision_strategy call
    submitted,                  \* <<personIndex, accept>> of every decision sent
    files,                      \* the JSON files of the working directory, by name
    sessions,                   \* the runs of a script that save to them, and their locals
    now                         \* datetime.now()

vars == <<scenario, constraints, attribute_statistics, pc, response, status,
          person_index, attributes, admitted_count, rejected_count,
          attribute_counts, well_connected_encountered, result,
          decision_history, revealed, invoked, submitted, files, sessions, now>>

-----------------------------------------------------------------------------
(* Program constants *)

MAX_VENUE_CAPACITY_1 == 1000
MAX_VENUE_CAPACITY_2 == 1000 + 1
MAX_VENUE_CAPACITY_3 == 1000 + 1
MAX_REJECTIONS == 20000

MAX_VENUE_CAPACITY(s) ==
    CASE s = 1 -> MAX_VENUE_CAPACITY_1
      [] s = 2 -> MAX_VENUE_CAPACITY_2
      [] s = 3 -> MAX_VENUE_CAPACITY_3

\* The capacity the scripts document: "until the venue is full (1000 people)".
DocumentedCapacity == 1000

TrackedAttributes(s) ==
    CASE s = 1 -> {"young", "well_dressed"}
      [] s = 2 -> {"techno_lover", "well_connected", "creative", "berlin_local"}
      [] s = 3 -> {"underground_veteran", "international", "fashion_forward",
                   "queer_friendly", "vinyl_collector", "german_speaker"}

-----------------------------------------------------------------------------
(* Python values *)

\* None, as a record so that it compares with every dict of the model.
None == [isNone |-> TRUE]

\* d.get(k, default) on a dict modelled as a function
Get(d, k, default) == IF k \in DOMAIN d THEN d[k] ELSE default

\* What a call of the policy did: returned ret at a source line, or raised.
Return(b, l) == [exc |-> "none", ret |-> b, line |-> l]
Raise(e, l) == [exc |-> e, ret |-> FALSE, line |-> l]
\* A block of the policy that ran without returning.
FallThrough == [exc |-> "none", ret |-> FALSE, line |-> 0]
OrElse(r, next) == IF r.line # 0 THEN r ELSE next

\* venue_fill_ratio < t, t in permille
FillBelow(admitted, cap, t) == admitted * 1000 < t * cap

\* count / min < p, p in permille (min > 0)
RatioBelow(count, min, p) == count * 1000 < p * min

\* progress = count / min if min > 0 else 1.0, compared with p (permille)
ProgressBelow(count, min, p) ==
    IF min > 0 THEN RatioBelow(count, min, p) ELSE 1000 < p

\* count < min * m for a float factor m = p / 1000 whose product is exact
\* on the minimums used (1.03, 1.2, 0.1, 0.9)
BelowTimes(count, min, p) == count * 1000 < min * p

\* The minimums n in 0..1100 for which the float product n * 1.1 is just
\* above the integer 11 n / 10.
Mul11RoundsUp(n) ==
    /\ n % 10 = 0
    /\ \/ n = 50
       \/ n \in 90..110
       \/ n \in 170..230
       \/ n \in 330..460
       \/ n \in 650..930

\* count < min * 1.1 as the float comparison decides it
BelowTimes11(count, min) ==
    IF Mul11RoundsUp(min) THEN count * 10 <= min * 11 ELSE count * 10 < min * 11

-----------------------------------------------------------------------------
(* Reading the constraints list *)

\* for constraint in constraints: ... constraint['attribute'] ... constraint['minCount']
\* Scenario 1 reads minCount only of the two attributes it tracks.
ConstraintsRaise(s, cs) ==
    \E i \in 1..Len(cs) :
        \/ "attribute" \notin DOMAIN cs[i]
        \/ /\ "minCount" \notin DOMAIN cs[i]
           /\ (s = 1 => cs[i].attribute \in TrackedAttributes(1))

\* The minimum of a loop that starts from 0 instead of the default
RECURSIVE ConstraintMin_NoDefault(_, _, _)
ConstraintMin_NoDefault(cs, attr, default) ==
    IF cs = << >> THEN 0
    ELSE LET last == cs[Len(cs)]
         IN  IF last.attribute = attr THEN last.minCount
             ELSE ConstraintMin_NoDefault(SubSeq(cs, 1, Len(cs) - 1), attr, default)

\* The minimum the loop leaves for attr: that of the last entry naming it,
\* or the default.
RECURSIVE ConstraintMin(_, _, _)
ConstraintMin(cs, attr, default) ==
    IF cs = << >> THEN default
    ELSE LET last == cs[Len(cs)]
         IN  IF last.attribute = attr THEN last.minCount
             ELSE ConstraintMin(SubSeq(cs, 1, Len(cs) - 1), attr, default)

-----------------------------------------------------------------------------
(* Scenario 1: src/play_game.py should_accept_person *)

\* if admitted_count >= MAX_VENUE_CAPACITY: return False
venue_is_full(s, admitted) == admitted >= MAX_VENUE_CAPACITY(s)

DEFAULT_YOUNG_MIN == 600
DEFAULT_WELL_DRESSED_MIN == 600

\* Strategy 3: not young but well_dressed
strategy3_1(admitted, well_dressed_count, well_dressed_min) ==
    LET cap == MAX_VENUE_CAPACITY(1)
    IN  IF well_dressed_count >= well_dressed_min THEN Return(FALSE, 177)
        ELSE IF FillBelow(admitted, cap, 600) THEN Return(TRUE, 181)
        ELSE IF FillBelow(admitted, cap, 800)
             THEN IF ProgressBelow(well_dressed_count, well_dressed_min, 900)
                  THEN Return(TRUE, 187) ELSE Return(FALSE, 188)
        ELSE IF ProgressBelow(well_dressed_count, well_dressed_min, 850)
             THEN Return(TRUE, 193) ELSE Return(FALSE, 194)

\* Strategy 4 with tolerances below the target: 0.7, 0.8 and 0.9 of it
strategy4_1_ToleratingLess(admitted, young_count, young_min) ==
    LET cap == MAX_VENUE_CAPACITY(1)
    IN  IF young_count >= young_min
        THEN IF FillBelow(admitted, cap, 900) THEN Return(TRUE, 207)
             ELSE Return(FALSE, 208)
        ELSE IF FillBelow(admitted, cap, 400) THEN Return(TRUE, 212)
        ELSE IF FillBelow(admitted, cap, 700)
             THEN IF ProgressBelow(young_count, young_min, 700)
                  THEN Return(TRUE, 218) ELSE Return(FALSE, 219)
        ELSE IF FillBelow(admitted, cap, 900)
             THEN IF ProgressBelow(young_count, young_min, 800)
                  THEN Return(TRUE, 225) ELSE Return(FALSE, 226)
        ELSE IF ProgressBelow(young_count, young_min, 900)
             THEN Return(TRUE, 230) ELSE Return(FALSE, 231)

\* Strategy 4: young
strategy4_1(admitted, young_count, young_min) ==
    LET cap == MAX_VENUE_CAPACITY(1)
    IN  IF young_count >= young_min
        THEN IF FillBelow(admitted, cap, 700) THEN Return(TRUE, 204)
             ELSE IF FillBelow(admitted, cap, 900) THEN Return(TRUE, 207)
             ELSE Return(FALSE, 208)
        ELSE IF FillBelow(admitted, cap, 400) THEN Return(TRUE, 212)
        ELSE IF FillBelow(admitted, cap, 700)
             THEN IF ProgressBelow(young_count, young_min, 1100)
                  THEN Return(TRUE, 218) ELSE Return(FALSE, 219)
        ELSE IF FillBelow(admitted, cap, 900)
             THEN IF ProgressBelow(young_count, young_min, 1200)
                  THEN Return(TRUE, 225) ELSE Return(FALSE, 226)
        ELSE IF ProgressBelow(young_count, young_min, 1300)
             THEN Return(TRUE, 230) ELSE Return(FALSE, 231)

should_accept_person_1_ByNeedOnly(person_attributes, cs, admitted, counts, stats) ==
    IF venue_is_full(1, admitted) THEN Return(FALSE, 139)
    ELSE IF ConstraintsRaise(1, cs) THEN Raise("KeyError", 149)
    ELSE
    LET is_young == Get(person_attributes, "young", FALSE)
        is_well_dressed == Get(person_attributes, "well_dressed", FALSE)
        young_min == ConstraintMin(cs, "young", DEFAULT_YOUNG_MIN)
        well_dressed_min == ConstraintMin(cs, "well_dressed", DEFAULT_WELL_DRESSED_MIN)
        young_count == Get(counts, "young", 0)
        well_dressed_count == Get(counts, "well_dressed", 0)
    IN  IF ~is_young /\ ~is_well_dressed THEN Return(FALSE, 171)
        ELSE IF ~is_young /\ is_well_dressed
             THEN strategy3_1(admitted, well_dressed_count, well_dressed_min)
        ELSE IF is_young
             THEN strategy4_1(admitted, young_count, young_min)
        ELSE Return(FALSE, 234)

should_accept_person_1(person_attributes, cs, admitted, counts, stats) ==
    IF venue_is_full(1, admitted) THEN Return(FALSE, 139)
    ELSE IF ConstraintsRaise(1, cs) THEN Raise("KeyError", 149)
    ELSE
    LET is_young == Get(person_attributes, "young", FALSE)
        is_well_dressed == Get(person_attributes, "well_dressed", FALSE)
        young_min == ConstraintMin(cs, "young", DEFAULT_YOUNG_MIN)
        well_dressed_min == ConstraintMin(cs, "well_dressed", DEFAULT_WELL_DRESSED_MIN)
        young_count == Get(counts, "young", 0)
        well_dressed_count == Get(counts, "well_dressed", 0)
    IN  IF is_young /\ is_well_dressed THEN Return(TRUE, 167)
        ELSE IF ~is_young /\ ~is_well_dressed THEN Return(FALSE, 171)
        ELSE IF ~is_young /\ is_well_dressed
             THEN strategy3_1(admitted, well_dressed_count, well_dressed_min)
        ELSE IF is_young
             THEN strategy4_1(admitted, young_count, young_min)
        ELSE Return(FALSE, 234)

-----------------------------------------------------------------------------
(* Scenario 3: src/scenario_3/play_game.py should_accept_person *)

\* TUNABLE PARAMETERS (fill ratios and multipliers in permille)
P3 == [VENUE_FILL_CRITICAL |-> 990, VENUE_FILL_LATE |-> 970,
       VENUE_FILL_MID |-> 900, VENUE_FILL_EARLY |-> 800,
       DEFICIT_VERY_HIGH |-> 200, DEFICIT_HIGH |-> 100,
       DEFICIT_MODERATE |-> 50, DEFICIT_LOW |-> 20,
       OVER_TARGET_RARE |-> 1200, OVER_TARGET_COMMON |-> 1100]

\* Default constraint minimums
DEFAULT_MIN_3 ==
    [underground_veteran |-> 500, international |-> 650, fashion_forward |-> 550,
     queer_friendly |-> 250, vinyl_collector |-> 200, german_speaker |-> 800]

\* The local values when a missing attribute reads as True
locals_3_MissingTrue(person_attributes, cs, admitted, counts) ==
    [is   |-> [a \in TrackedAttributes(3) |-> Get(person_attributes, a, TRUE)],
     min  |-> [a \in TrackedAttributes(3) |-> ConstraintMin(cs, a, DEFAULT_MIN_3[a])],
     count |-> [a \in TrackedAttributes(3) |-> Get(counts, a, 0)],
     admitted |-> admitted]

\* The attribute that stands for each local name prefix of the function
\* (is_queer, queer_min, queer_count, ...): the local values of a call.
locals_3(person_attributes, cs, admitted, counts) ==
    [is   |-> [a \in TrackedAttributes(3) |-> Get(person_attributes, a, FALSE)],
     min  |-> [a \in TrackedAttributes(3) |-> ConstraintMin(cs, a, DEFAULT_MIN_3[a])],
     count |-> [a \in TrackedAttributes(3) |-> Get(counts, a, 0)],
     admitted |-> admitted]

deficit_3(v, a) == v.min[a] - v.count[a]

fill_below_3(v, t) == FillBelow(v.admitted, MAX_VENUE_CAPACITY(3), t)

\* HARD RULES
HARD_RULE_COUNT == 130

hard_rules_3_RejectingCarriers(v) ==
    IF v.count["queer_friendly"] < HARD_RULE_COUNT
    THEN IF v.is["queer_friendly"] THEN Return(FALSE, 258) ELSE Return(TRUE, 260)
    ELSE IF v.count["vinyl_collector"] < HARD_RULE_COUNT
    THEN IF v.is["vinyl_collector"] THEN Return(FALSE, 264) ELSE Return(TRUE, 266)
    ELSE FallThrough

\* The hard rules without the rule on vinyl_collector
hard_rules_3_QueerOnly(v) ==
    IF v.count["queer_friendly"] < HARD_RULE_COUNT
    THEN IF v.is["queer_friendly"] THEN Return(TRUE, 258) ELSE Return(FALSE, 260)
    ELSE FallThrough

hard_rules_3(v) ==
    IF v.count["queer_friendly"] < HARD_RULE_COUNT
    THEN IF v.is["queer_friendly"] THEN Return(TRUE, 258) ELSE Return(FALSE, 260)
    ELSE IF v.count["vinyl_collector"] < HARD_RULE_COUNT
    THEN IF v.is["vinyl_collector"] THEN Return(TRUE, 264) ELSE Return(FALSE, 266)
    ELSE FallThrough

\* STRATEGY 1: rare attributes below min * OVER_TARGET_RARE
strategy1_3(v) ==
    IF v.is["queer_friendly"]
       /\ BelowTimes(v.count["queer_friendly"], v.min["queer_friendly"], P3.OVER_TARGET_RARE)
    THEN Return(TRUE, 271)
    ELSE IF v.is["vinyl_collector"]
       /\ BelowTimes(v.count["vinyl_collector"], v.min["vinyl_collector"], P3.OVER_TARGET_RARE)
    THEN Return(TRUE, 273)
    ELSE FallThrough

is_needed_3(v, a) == v.is[a] /\ v.count[a] < v.min[a]

needed_attributes_3(v) ==
    Cardinality({a \in TrackedAttributes(3) : is_needed_3(v, a)})

is_critical_3(v, a) ==
    /\ is_needed_3(v, a)
    /\ \/ a \in {"queer_friendly", "vinyl_collector"}
       \/ deficit_3(v, a) > P3.DEFICIT_MODERATE

critical_attributes_3(v) ==
    Cardinality({a \in TrackedAttributes(3) : is_critical_3(v, a)})

\* STRATEGY 2: several needed attributes
strategy2_3(v) ==
    IF needed_attributes_3(v) >= 3 THEN Return(TRUE, 304)
    ELSE IF critical_attributes_3(v) >= 2 THEN Return(TRUE, 308)
    ELSE FallThrough

\* STRATEGY 3: one rare attribute (the block of is_queer, then of is_vinyl)
rare_3(v, a, l1, l2) ==
    IF v.is[a]
    THEN IF v.count[a] < v.min[a] THEN Return(TRUE, l1)
         ELSE IF ProgressBelow(v.count[a], v.min[a], P3.OVER_TARGET_RARE)
                 /\ fill_below_3(v, P3.VENUE_FILL_LATE)
              THEN Return(TRUE, l2)
         ELSE FallThrough
    ELSE FallThrough

strategy3_3(v) ==
    OrElse(rare_3(v, "queer_friendly", 314, 317),
           rare_3(v, "vinyl_collector", 321, 324))

\* STRATEGY 4: international and german_speaker together
has_int_german_combo(v) == v.is["international"] /\ v.is["german_speaker"]

strategy4_3(v) ==
    IF has_int_german_combo(v)
    THEN IF \/ v.count["international"] < v.min["international"]
            \/ v.count["german_speaker"] < v.min["german_speaker"]
         THEN Return(TRUE, 333)
         ELSE IF /\ ProgressBelow(v.count["international"], v.min["international"],
                                  P3.OVER_TARGET_COMMON)
                 /\ ProgressBelow(v.count["german_speaker"], v.min["german_speaker"],
                                  P3.OVER_TARGET_COMMON)
                 /\ fill_below_3(v, P3.VENUE_FILL_LATE)
              THEN Return(TRUE, 337)
         ELSE Return(FALSE, 339)
    ELSE FallThrough

\* STRATEGY 5: one block per common attribute
common_3(v, a, l1, l2, l3) ==
    IF v.count[a] < v.min[a]
    THEN IF deficit_3(v, a) > P3.DEFICIT_LOW THEN Return(TRUE, l1)
         ELSE IF fill_below_3(v, P3.VENUE_FILL_MID) THEN Return(TRUE, l2)
         ELSE FallThrough
    ELSE IF ProgressBelow(v.count[a], v.min[a], P3.OVER_TARGET_COMMON)
            /\ fill_below_3(v, P3.VENUE_FILL_LATE)
         THEN Return(TRUE, l3)
    ELSE FallThrough

strategy5_3(v) ==
    OrElse(IF v.is["german_speaker"] /\ ~v.is["international"]
           THEN common_3(v, "german_speaker", 347, 350, 354) ELSE FallThrough,
    OrElse(IF v.is["international"] /\ ~v.is["german_speaker"]
           THEN common_3(v, "international", 360, 362, 365) ELSE FallThrough,
    OrElse(IF v.is["underground_veteran"]
           THEN common_3(v, "underground_veteran", 371, 373, 376) ELSE FallThrough,
           IF v.is["fashion_forward"]
           THEN common_3(v, "fashion_forward", 382, 384, 387) ELSE FallThrough)))

\* max(underground_deficit, ..., german_deficit) > d
max_deficit_above_3(v, d) ==
    \E a \in TrackedAttributes(3) : deficit_3(v, a) > d

\* STRATEGY 6: at least one needed attribute, early
strategy6_3(v) ==
    IF needed_attributes_3(v) >= 1
    THEN IF fill_below_3(v, P3.VENUE_FILL_EARLY) THEN Return(TRUE, 392)
         ELSE IF fill_below_3(v, P3.VENUE_FILL_MID)
                 /\ max_deficit_above_3(v, P3.DEFICIT_MODERATE)
              THEN Return(TRUE, 399)
         ELSE FallThrough
    ELSE FallThrough

\* STRATEGY 7: late game
strategy7_3(v) ==
    IF ~fill_below_3(v, P3.VENUE_FILL_LATE)
    THEN IF max_deficit_above_3(v, P3.DEFICIT_HIGH) /\ needed_attributes_3(v) >= 1
         THEN Return(TRUE, 407)
         ELSE IF is_needed_3(v, "queer_friendly") \/ is_needed_3(v, "vinyl_collector")
              THEN Return(TRUE, 410)
         ELSE FallThrough
    ELSE FallThrough

\* int_german_corr = correlations.get("international", {}).get("german_speaker", -0.717)
\* (in permille; read and never used by a rule)
int_german_corr(stats) ==
    LET correlations ==
            IF ~stats.isNone /\ stats.keys # {} /\ "correlations" \in stats.keys
            THEN stats.correlations ELSE << >>
    IN  Get(Get(correlations, "international", << >>), "german_speaker", -717)

\* The policy with STRATEGY 4 applied only when statistics are given
should_accept_person_3_WithStatistics(person_attributes, cs, admitted, counts, stats) ==
    IF venue_is_full(3, admitted) THEN Return(FALSE, 196)
    ELSE IF ConstraintsRaise(3, cs) THEN Raise("KeyError", 209)
    ELSE
    LET v == locals_3(person_attributes, cs, admitted, counts)
    IN  OrElse(hard_rules_3(v),
        OrElse(strategy1_3(v),
        OrElse(strategy2_3(v),
        OrElse(strategy3_3(v),
        OrElse(IF stats.isNone THEN FallThrough ELSE strategy4_3(v),
        OrElse(strategy5_3(v),
        OrElse(strategy6_3(v),
        OrElse(strategy7_3(v),
               Return(FALSE, 413)))))))))

should_accept_person_3(person_attributes, cs, admitted, counts, stats) ==
    IF venue_is_full(3, admitted) THEN Return(FALSE, 196)
    ELSE IF ConstraintsRaise(3, cs) THEN Raise("KeyError", 209)
    ELSE
    LET v == locals_3(person_attributes, cs, admitted, counts)
    IN  OrElse(hard_rules_3(v),
        OrElse(strategy1_3(v),
        OrElse(strategy2_3(v),
        OrElse(strategy3_3(v),
        OrElse(strategy4_3(v),
        OrElse(strategy5_3(v),
        OrElse(strategy6_3(v),
        OrElse(strategy7_3(v),
               Return(FALSE, 413)))))))))

-----------------------------------------------------------------------------
(* Scenario 2: src/scenario_2/play_game.py should_accept_person *)

\* TUNABLE PARAMETERS (fill ratios, ratios and multipliers in permille)
P2 == [VENUE_FILL_CRITICAL |-> 990, VENUE_FILL_LATE |-> 970,
       VENUE_FILL_MID_LATE |-> 950, VENUE_FILL_MID |-> 900,
       VENUE_FILL_MID_EARLY |-> 850, VENUE_FILL_EARLY |-> 800,
       VENUE_FILL_MODERATE |-> 750, VENUE_FILL_LOW |-> 700,
       VENUE_FILL_VERY_LOW |-> 650, VENUE_FILL_MINIMAL |-> 600,
       VENUE_FILL_VERY_MINIMAL |-> 500, VENUE_FILL_EMPTY |-> 50,
       VENUE_FILL_VERY_EMPTY |-> 20, VENUE_FILL_EXTREMELY_EMPTY |-> 5,
       VENUE_FILL_ULTRA_EMPTY |-> 2,
       DEFICIT_VERY_HIGH |-> 200, DEFICIT_HIGH |-> 150,
       DEFICIT_MODERATE_HIGH |-> 100, DEFICIT_MODERATE |-> 50,
       DEFICIT_LOW |-> 20, DEFICIT_VERY_LOW |-> 15, DEFICIT_MINIMAL |-> 10,
       DEFICIT_TINY |-> 8, DEFICIT_MICRO |-> 5,
       WELL_CONNECTED_SKIP_MODULO |-> 15, WELL_CONNECTED_CRITICAL_RATIO |-> 100,
       MIN_ATTRIBUTES_FOR_STRATEGY_2 |-> 3, MIN_NEEDED_ATTRIBUTES |-> 2,
       MIN_CRITICAL_ATTRIBUTES |-> 2,
       DEFAULT_TECH_BERLIN_CORR |-> -650, DEFAULT_WELL_BERLIN_CORR |-> 570,
       DEFAULT_TECH_WELL_CORR |-> -470]

\* Default constraint minimums
DEFAULT_MIN_2 ==
    [techno_lover |-> 650, well_connected |-> 450, creative |-> 300,
     berlin_local |-> 750]

\* correlations = attribute_statistics["correlations"] when there are any
correlations_of(stats) ==
    IF ~stats.isNone /\ stats.keys # {} /\ "correlations" \in stats.keys
    THEN stats.correlations ELSE << >>

\* tech_berlin_corr, well_berlin_corr, tech_well_corr (in permille; read and
\* never used by a rule)
tech_berlin_corr(stats) ==
    Get(Get(correlations_of(stats), "techno_lover", << >>), "berlin_local",
        P2.DEFAULT_TECH_BERLIN_CORR)
well_berlin_corr(stats) ==
    Get(Get(correlations_of(stats), "well_connected", << >>), "berlin_local",
        P2.DEFAULT_WELL_BERLIN_CORR)
tech_well_corr(stats) ==
    Get(Get(correlations_of(stats), "techno_lover", << >>), "well_connected",
        P2.DEFAULT_TECH_WELL_CORR)

\* The local values of a call, by attribute (is_creative, creative_min,
\* creative_count, ...)
locals_2(person_attributes, cs, admitted, counts, wce) ==
    [is   |-> [a \in TrackedAttributes(2) |-> Get(person_attributes, a, FALSE)],
     min  |-> [a \in TrackedAttributes(2) |-> ConstraintMin(cs, a, DEFAULT_MIN_2[a])],
     count |-> [a \in TrackedAttributes(2) |-> Get(counts, a, 0)],
     admitted |-> admitted,
     well_connected_encountered |-> wce]

deficit_2(v, a) == v.min[a] - v.count[a]
below_min_2(v, a) == v.count[a] < v.min[a]
fill_below_2(v, t) == FillBelow(v.admitted, MAX_VENUE_CAPACITY(2), t)
is_needed_2(v, a) == v.is[a] /\ below_min_2(v, a)

needed_attributes_2(v) ==
    Cardinality({a \in TrackedAttributes(2) : is_needed_2(v, a)})
total_attributes_2(v) ==
    Cardinality({a \in TrackedAttributes(2) : v.is[a]})

has_rare_tech_berlin_combo(v) == v.is["techno_lover"] /\ v.is["berlin_local"]
has_well_berlin_combo(v) == v.is["well_connected"] /\ v.is["berlin_local"]

\* creative_progress >= p
creative_progress_at_least(v, p) ==
    ~ProgressBelow(v.count["creative"], v.min["creative"], p)

\* Strategy 1: creative
strategy1_2(v) ==
    IF below_min_2(v, "creative") THEN Return(TRUE, 307)
    ELSE
    LET berlin_deficit == deficit_2(v, "berlin_local")
        techno_deficit == deficit_2(v, "techno_lover")
        behind == below_min_2(v, "berlin_local") \/ below_min_2(v, "techno_lover")
    IN  IF /\ behind
           /\ (berlin_deficit > P2.DEFICIT_MODERATE \/ techno_deficit > P2.DEFICIT_MODERATE)
           /\ fill_below_2(v, P2.VENUE_FILL_MID)
        THEN Return(TRUE, 323)
        ELSE IF /\ behind
                /\ ~(berlin_deficit > P2.DEFICIT_MODERATE \/ techno_deficit > P2.DEFICIT_MODERATE)
                /\ (berlin_deficit > P2.DEFICIT_LOW \/ techno_deficit > P2.DEFICIT_LOW)
                /\ fill_below_2(v, P2.VENUE_FILL_MID_EARLY)
        THEN Return(TRUE, 327)
        ELSE IF /\ fill_below_2(v, P2.VENUE_FILL_MID)
                /\ BelowTimes(v.count["creative"], v.min["creative"], 1030)
        THEN Return(TRUE, 330)
        ELSE Return(FALSE, 331)

\* Strategy 2: three or more attributes
strategy2_2(v) ==
    LET has_needed_creative == is_needed_2(v, "creative")
        has_needed_berlin == is_needed_2(v, "berlin_local")
        has_needed_techno == is_needed_2(v, "techno_lover")
        all_critical_over ==
            /\ ~(has_needed_techno /\ BelowTimes11(v.count["techno_lover"], v.min["techno_lover"]))
            /\ ~(has_needed_berlin /\ BelowTimes11(v.count["berlin_local"], v.min["berlin_local"]))
            /\ ~(has_needed_creative /\ BelowTimes11(v.count["creative"], v.min["creative"]))
    IN  IF has_rare_tech_berlin_combo(v)
        THEN IF below_min_2(v, "techno_lover") \/ below_min_2(v, "berlin_local")
             THEN Return(TRUE, 344)
             ELSE IF fill_below_2(v, P2.VENUE_FILL_CRITICAL) THEN Return(TRUE, 347)
             ELSE Return(FALSE, 348)
        ELSE IF has_needed_creative \/ has_needed_berlin \/ has_needed_techno
        THEN IF fill_below_2(v, P2.VENUE_FILL_CRITICAL) THEN Return(TRUE, 359)
             ELSE IF ~all_critical_over THEN Return(TRUE, 369)
             ELSE Return(FALSE, 370)
        ELSE IF deficit_2(v, "creative") > P2.DEFICIT_MODERATE THEN Return(FALSE, 379)
        ELSE IF v.is["well_connected"]
        THEN IF ~below_min_2(v, "well_connected") THEN Return(FALSE, 385)
             ELSE IF fill_below_2(v, P2.VENUE_FILL_VERY_EMPTY) THEN Return(TRUE, 388)
             ELSE Return(FALSE, 389)
        ELSE IF fill_below_2(v, P2.VENUE_FILL_EMPTY) THEN Return(TRUE, 393)
        ELSE Return(FALSE, 394)

\* Strategy 3, the techno_lover + berlin_local combination
strategy3_tech_berlin_2(v) ==
    IF has_rare_tech_berlin_combo(v)
    THEN IF below_min_2(v, "techno_lover") /\ below_min_2(v, "berlin_local")
         THEN Return(TRUE, 404)
         ELSE IF below_min_2(v, "techno_lover") \/ below_min_2(v, "berlin_local")
         THEN IF fill_below_2(v, P2.VENUE_FILL_CRITICAL) THEN Return(TRUE, 408)
              ELSE Return(FALSE, 409)
         ELSE FallThrough
    ELSE FallThrough

\* Strategy 3, the well_connected + berlin_local combination
strategy3_well_berlin_2(v) ==
    IF has_well_berlin_combo(v) /\ below_min_2(v, "berlin_local")
    THEN IF fill_below_2(v, P2.VENUE_FILL_MID_LATE) THEN Return(TRUE, 418)
         ELSE IF BelowTimes11(v.count["berlin_local"], v.min["berlin_local"])
         THEN Return(TRUE, 421)
         ELSE Return(FALSE, 422)
    ELSE FallThrough

\* Strategy 3, the rest: by the number of critical attributes needed
strategy3_critical_2(v) ==
    LET has_needed_creative == is_needed_2(v, "creative")
        has_needed_berlin == is_needed_2(v, "berlin_local")
        has_needed_techno == is_needed_2(v, "techno_lover")
        critical_needed ==
            Cardinality({a \in {"creative", "berlin_local", "techno_lover"} :
                            is_needed_2(v, a)})
        creative_deficit == deficit_2(v, "creative")
    IN  IF critical_needed >= P2.MIN_CRITICAL_ATTRIBUTES
        THEN IF fill_below_2(v, P2.VENUE_FILL_CRITICAL) THEN Return(TRUE, 433)
             ELSE Return(FALSE, 434)
        ELSE IF critical_needed >= 1
        THEN IF creative_deficit > P2.DEFICIT_MODERATE_HIGH
             THEN IF fill_below_2(v, P2.VENUE_FILL_LOW) THEN Return(TRUE, 444)
                  ELSE Return(FALSE, 445)
             ELSE IF creative_deficit > P2.DEFICIT_MODERATE
             THEN IF fill_below_2(v, P2.VENUE_FILL_MID_EARLY) THEN Return(TRUE, 449)
                  ELSE Return(FALSE, 450)
             ELSE IF fill_below_2(v, P2.VENUE_FILL_MID_LATE) THEN Return(TRUE, 453)
             ELSE IF has_needed_techno
                     /\ ~BelowTimes11(v.count["techno_lover"], v.min["techno_lover"])
             THEN Return(FALSE, 456)
             ELSE IF has_needed_berlin
                     /\ ~BelowTimes11(v.count["berlin_local"], v.min["berlin_local"])
             THEN Return(FALSE, 458)
             ELSE IF has_needed_creative
                     /\ ~BelowTimes11(v.count["creative"], v.min["creative"])
             THEN Return(FALSE, 460)
             ELSE Return(TRUE, 461)
        ELSE IF v.is["well_connected"] /\ ~below_min_2(v, "well_connected")
        THEN Return(FALSE, 467)
        ELSE IF fill_below_2(v, P2.VENUE_FILL_EMPTY) THEN Return(TRUE, 470)
        ELSE Return(FALSE, 471)

\* Strategy 3: two or more needed attributes
strategy3_2(v) ==
    OrElse(strategy3_tech_berlin_2(v),
    OrElse(strategy3_well_berlin_2(v),
           strategy3_critical_2(v)))

\* Strategy 4: berlin_local
strategy4_berlin_2(v) ==
    LET creative_deficit == deficit_2(v, "creative")
        techno_deficit == deficit_2(v, "techno_lover")
        behind == below_min_2(v, "creative") \/ below_min_2(v, "techno_lover")
        far == creative_deficit > P2.DEFICIT_MODERATE \/ techno_deficit > P2.DEFICIT_MODERATE
    IN  IF below_min_2(v, "berlin_local")
        THEN IF creative_deficit > P2.DEFICIT_MODERATE_HIGH
             THEN IF fill_below_2(v, P2.VENUE_FILL_VERY_LOW) THEN Return(TRUE, 495)
                  ELSE Return(FALSE, 496)
             ELSE IF creative_deficit > P2.DEFICIT_MODERATE
             THEN IF fill_below_2(v, P2.VENUE_FILL_LOW) THEN Return(TRUE, 500)
                  ELSE Return(FALSE, 501)
             ELSE IF creative_deficit > P2.DEFICIT_LOW
             THEN IF fill_below_2(v, P2.VENUE_FILL_MODERATE) THEN Return(TRUE, 505)
                  ELSE Return(FALSE, 506)
             ELSE IF creative_deficit > P2.DEFICIT_MINIMAL
             THEN IF fill_below_2(v, P2.VENUE_FILL_MID_EARLY) THEN Return(TRUE, 510)
                  ELSE Return(FALSE, 511)
             ELSE IF fill_below_2(v, P2.VENUE_FILL_MID) THEN Return(TRUE, 514)
             ELSE Return(FALSE, 515)
        ELSE IF behind /\ far /\ fill_below_2(v, P2.VENUE_FILL_MID)
        THEN Return(TRUE, 530)
        ELSE IF /\ behind /\ ~far
                /\ (creative_deficit > P2.DEFICIT_LOW \/ techno_deficit > P2.DEFICIT_LOW)
                /\ fill_below_2(v, P2.VENUE_FILL_MID_EARLY)
        THEN Return(TRUE, 534)
        ELSE IF /\ fill_below_2(v, P2.VENUE_FILL_MID)
                /\ BelowTimes(v.count["berlin_local"], v.min["berlin_local"], 1030)
        THEN Return(TRUE, 537)
        ELSE Return(FALSE, 538)

\* Strategy 4: techno_lover
strategy4_techno_2_Skipping(v) ==
    IF v.well_connected_encountered > 0 THEN Return(FALSE, 557)
    ELSE
    LET creative_deficit == deficit_2(v, "creative")
        berlin_deficit == deficit_2(v, "berlin_local")
    IN  IF below_min_2(v, "techno_lover")
        THEN IF berlin_deficit > P2.DEFICIT_VERY_HIGH
             THEN IF fill_below_2(v, P2.VENUE_FILL_MINIMAL) THEN Return(TRUE, 556)
                  ELSE Return(FALSE, 557)
             ELSE IF creative_deficit > P2.DEFICIT_MODERATE_HIGH
             THEN IF fill_below_2(v, P2.VENUE_FILL_VERY_MINIMAL) THEN Return(TRUE, 564)
                  ELSE Return(FALSE, 565)
             ELSE IF creative_deficit > P2.DEFICIT_MODERATE
             THEN IF fill_below_2(v, P2.VENUE_FILL_VERY_LOW) THEN Return(TRUE, 570)
                  ELSE Return(FALSE, 571)
             ELSE IF berlin_deficit > P2.DEFICIT_HIGH
             THEN IF fill_below_2(v, P2.VENUE_FILL_MODERATE) THEN Return(TRUE, 576)
                  ELSE Return(FALSE, 577)
             ELSE IF fill_below_2(v, P2.VENUE_FILL_MID_EARLY) THEN Return(TRUE, 580)
             ELSE Return(FALSE, 581)
        ELSE IF /\ creative_deficit < P2.DEFICIT_MODERATE
                /\ berlin_deficit < P2.DEFICIT_MODERATE_HIGH
                /\ fill_below_2(v, P2.VENUE_FILL_MID)
        THEN Return(TRUE, 588)
        ELSE Return(FALSE, 589)

strategy4_techno_2(v) ==
    LET creative_deficit == deficit_2(v, "creative")
        berlin_deficit == deficit_2(v, "berlin_local")
    IN  IF below_min_2(v, "techno_lover")
        THEN IF berlin_deficit > P2.DEFICIT_VERY_HIGH
             THEN IF fill_below_2(v, P2.VENUE_FILL_MINIMAL) THEN Return(TRUE, 556)
                  ELSE Return(FALSE, 557)
             ELSE IF creative_deficit > P2.DEFICIT_MODERATE_HIGH
             THEN IF fill_below_2(v, P2.VENUE_FILL_VERY_MINIMAL) THEN Return(TRUE, 564)
                  ELSE Return(FALSE, 565)
             ELSE IF creative_deficit > P2.DEFICIT_MODERATE
             THEN IF fill_below_2(v, P2.VENUE_FILL_VERY_LOW) THEN Return(TRUE, 570)
                  ELSE Return(FALSE, 571)
             ELSE IF berlin_deficit > P2.DEFICIT_HIGH
             THEN IF fill_below_2(v, P2.VENUE_FILL_MODERATE) THEN Return(TRUE, 576)
                  ELSE Return(FALSE, 577)
             ELSE IF fill_below_2(v, P2.VENUE_FILL_MID_EARLY) THEN Return(TRUE, 580)
             ELSE Return(FALSE, 581)
        ELSE IF /\ creative_deficit < P2.DEFICIT_MODERATE
                /\ berlin_deficit < P2.DEFICIT_MODERATE_HIGH
                /\ fill_below_2(v, P2.VENUE_FILL_MID)
        THEN Return(TRUE, 588)
        ELSE Return(FALSE, 589)

\* well_connected: the early game restriction while creative is below target
wc_early_restriction_2(v) ==
    IF below_min_2(v, "creative")
    THEN IF BelowTimes(v.count["well_connected"], v.min["well_connected"], 100)
         THEN IF fill_below_2(v, P2.VENUE_FILL_VERY_MINIMAL)
                 /\ creative_progress_at_least(v, 800)
              THEN FallThrough
              ELSE Return(FALSE, 617)
         ELSE Return(FALSE, 621)
    ELSE FallThrough

\* well_connected without the early rejection
wc_early_rejection_2_Absent(v) == FallThrough

\* well_connected: the early rejection once the target is met
wc_early_rejection_2(v) ==
    IF ~below_min_2(v, "well_connected")
    THEN IF v.is["berlin_local"] /\ below_min_2(v, "berlin_local")
         THEN IF deficit_2(v, "creative") > P2.DEFICIT_MINIMAL THEN Return(FALSE, 638)
              ELSE IF /\ BelowTimes(v.count["well_connected"], v.min["well_connected"], 1030)
                      /\ fill_below_2(v, P2.VENUE_FILL_MID)
              THEN Return(TRUE, 640)
              ELSE Return(FALSE, 642)
         ELSE Return(FALSE, 642)
    ELSE FallThrough

\* well_connected: a skip strategy that lets the candidates between the
\* multiples through to the normal logic
wc_skip_strategy_2_LettingThrough(v) ==
    LET wce == v.well_connected_encountered
    IN  IF wce > 0 /\ wce % P2.WELL_CONNECTED_SKIP_MODULO = 0
        THEN IF below_min_2(v, "well_connected") THEN FallThrough
             ELSE Return(FALSE, 697)
        ELSE FallThrough

\* well_connected: the skip strategy on well_connected_encountered
wc_skip_strategy_2(v) ==
    LET wce == v.well_connected_encountered
        creative_deficit == deficit_2(v, "creative")
        berlin_deficit == deficit_2(v, "berlin_local")
    IN  IF wce > 0 /\ wce % P2.WELL_CONNECTED_SKIP_MODULO = 0
        THEN IF below_min_2(v, "well_connected")
             THEN IF /\ below_min_2(v, "creative")
                     /\ ~(/\ fill_below_2(v, P2.VENUE_FILL_VERY_MINIMAL)
                          /\ creative_progress_at_least(v, 850))
                  THEN Return(FALSE, 664)
                  ELSE IF creative_deficit > P2.DEFICIT_MINIMAL THEN Return(FALSE, 669)
                  ELSE IF ~BelowTimes(v.count["well_connected"], v.min["well_connected"], 900)
                  THEN IF fill_below_2(v, P2.VENUE_FILL_MID_EARLY) THEN Return(TRUE, 674)
                       ELSE Return(FALSE, 675)
                  ELSE FallThrough
             ELSE IF /\ berlin_deficit > P2.DEFICIT_MODERATE_HIGH
                     /\ fill_below_2(v, P2.VENUE_FILL_MID)
             THEN IF creative_deficit > P2.DEFICIT_MINIMAL THEN Return(FALSE, 682)
                  ELSE IF below_min_2(v, "creative") /\ ~creative_progress_at_least(v, 850)
                  THEN Return(FALSE, 689)
                  ELSE IF below_min_2(v, "creative")
                          /\ ~fill_below_2(v, P2.VENUE_FILL_VERY_MINIMAL)
                  THEN Return(FALSE, 692)
                  ELSE Return(TRUE, 693)
             ELSE Return(FALSE, 697)
        ELSE IF wce > 0
        THEN IF BelowTimes(v.count["well_connected"], v.min["well_connected"],
                           P2.WELL_CONNECTED_CRITICAL_RATIO)
             THEN IF creative_deficit > P2.DEFICIT_MINIMAL THEN Return(FALSE, 706)
                  ELSE IF below_min_2(v, "creative") /\ ~creative_progress_at_least(v, 850)
                  THEN Return(FALSE, 712)
                  ELSE IF below_min_2(v, "creative")
                          /\ ~fill_below_2(v, P2.VENUE_FILL_VERY_MINIMAL)
                  THEN Return(FALSE, 715)
                  ELSE FallThrough
             ELSE Return(FALSE, 719)
        ELSE FallThrough

\* well_connected: the normal logic while the target is not met
wc_needed_2(v) ==
    LET creative_deficit == deficit_2(v, "creative")
        berlin_deficit == deficit_2(v, "berlin_local")
        techno_deficit == deficit_2(v, "techno_lover")
    IN  IF below_min_2(v, "well_connected")
        THEN IF /\ below_min_2(v, "creative")
                /\ \/ ~creative_progress_at_least(v, 850)
                   \/ ~fill_below_2(v, P2.VENUE_FILL_VERY_MINIMAL)
             THEN Return(FALSE, 733)
             ELSE IF creative_deficit > P2.DEFICIT_MINIMAL THEN Return(FALSE, 737)
             ELSE IF ~BelowTimes(v.count["well_connected"], v.min["well_connected"], 900)
             THEN IF berlin_deficit > P2.DEFICIT_MODERATE_HIGH
                     /\ fill_below_2(v, P2.VENUE_FILL_MID)
                  THEN Return(TRUE, 746)
                  ELSE Return(FALSE, 747)
             ELSE IF berlin_deficit > P2.DEFICIT_MODERATE_HIGH
             THEN IF fill_below_2(v, P2.VENUE_FILL_MID_EARLY) THEN Return(TRUE, 753)
                  ELSE Return(FALSE, 754)
             ELSE IF /\ creative_deficit < P2.DEFICIT_MINIMAL
                     /\ berlin_deficit < P2.DEFICIT_LOW
                     /\ techno_deficit < P2.DEFICIT_VERY_LOW
                     /\ fill_below_2(v, P2.VENUE_FILL_EARLY)
             THEN Return(TRUE, 761)
             ELSE Return(FALSE, 762)
        ELSE FallThrough

\* well_connected: the fallback once the target is met
wc_fallback_2(v) ==
    IF ~below_min_2(v, "well_connected")
    THEN IF v.is["berlin_local"] /\ below_min_2(v, "berlin_local")
         THEN IF deficit_2(v, "creative") > P2.DEFICIT_MINIMAL THEN Return(FALSE, 773)
              ELSE IF /\ BelowTimes(v.count["well_connected"], v.min["well_connected"], 1030)
                      /\ fill_below_2(v, P2.VENUE_FILL_MID)
              THEN Return(TRUE, 775)
              ELSE Return(FALSE, 776)
         ELSE Return(FALSE, 776)
    ELSE Return(FALSE, 779)

\* Strategy 4: well_connected
strategy4_well_connected_2(v) ==
    OrElse(wc_early_restriction_2(v),
    OrElse(wc_early_rejection_2(v),
    OrElse(wc_skip_strategy_2(v),
    OrElse(wc_needed_2(v),
           wc_fallback_2(v)))))

\* Strategy 5: no needed attribute
strategy5_2_UntilEarly(v) ==
    LET creative_deficit == deficit_2(v, "creative")
    IN  IF creative_deficit > P2.DEFICIT_MODERATE THEN Return(FALSE, 794)
        ELSE IF creative_deficit > P2.DEFICIT_LOW
        THEN IF fill_below_2(v, P2.VENUE_FILL_EARLY) THEN Return(TRUE, 800)
             ELSE Return(FALSE, 801)
        ELSE IF fill_below_2(v, P2.VENUE_FILL_EARLY) THEN Return(TRUE, 806)
        ELSE Return(FALSE, 808)

strategy5_2(v) ==
    LET creative_deficit == deficit_2(v, "creative")
    IN  IF creative_deficit > P2.DEFICIT_MODERATE THEN Return(FALSE, 794)
        ELSE IF creative_deficit > P2.DEFICIT_LOW
        THEN IF fill_below_2(v, P2.VENUE_FILL_ULTRA_EMPTY) THEN Return(TRUE, 800)
             ELSE Return(FALSE, 801)
        ELSE IF fill_below_2(v, P2.VENUE_FILL_EXTREMELY_EMPTY) THEN Return(TRUE, 806)
        ELSE Return(FALSE, 808)

should_accept_person_2(person_attributes, cs, admitted, counts, stats, wce) ==
    IF venue_is_full(2, admitted) THEN Return(FALSE, 221)
    ELSE IF ConstraintsRaise(2, cs) THEN Raise("KeyError", 232)
    ELSE
    LET v == locals_2(person_attributes, cs, admitted, counts, wce)
    IN  IF v.is["creative"] THEN strategy1_2(v)
        ELSE IF total_attributes_2(v) >= P2.MIN_ATTRIBUTES_FOR_STRATEGY_2
             THEN strategy2_2(v)
        ELSE IF needed_attributes_2(v) >= P2.MIN_NEEDED_ATTRIBUTES
             THEN strategy3_2(v)
        ELSE IF v.is["berlin_local"] THEN strategy4_berlin_2(v)
        ELSE IF v.is["techno_lover"] THEN strategy4_techno_2(v)
        ELSE IF v.is["well_connected"] THEN strategy4_well_connected_2(v)
        ELSE IF needed_attributes_2(v) = 0 THEN strategy5_2(v)
        ELSE Return(FALSE, 811)

\* decision_strategy as play_game of each scenario calls it
should_accept_person(s, person_attributes, cs, admitted, counts, stats, wce) ==
    CASE s = 1 -> should_accept_person_1(person_attributes, cs, admitted, counts, stats)
      [] s = 2 -> should_accept_person_2(person_attributes, cs, admitted, counts, stats, wce)
      [] s = 3 -> should_accept_person_3(person_attributes, cs, admitted, counts, stats)

-----------------------------------------------------------------------------
(* Bounds and input sets *)

\* The server reveals at most this many persons in a session.
MaxPersons == 3

\* An attribute map with every tracked key, true exactly on the set T.
FullMap(s, T) == [a \in TrackedAttributes(s) |-> a \in T]
\* The same person with the false keys left out.
SparseMap(T) == IF T = {} THEN << >> ELSE [a \in T |-> TRUE]
\* The same person with a key no scenario tracks.
ExtraMap(s, T) == [a \in TrackedAttributes(s) \cup {"unknown_attribute"} |->
                      a \in T \/ a = "unknown_attribute"]

\* The constraints of the three games, as the server states them.
GameConstraints(s) ==
    CASE s = 1 -> << [attribute |-> "young", minCount |-> 600],
                     [attribute |-> "well_dressed", minCount |-> 600] >>
      [] s = 2 -> << [attribute |-> "techno_lover", minCount |-> 650],
                     [attribute |-> "well_connected", minCount |-> 450],
                     [attribute |-> "creative", minCount |-> 300],
                     [attribute |-> "berlin_local", minCount |-> 750] >>
      [] s = 3 -> << [attribute |-> "underground_veteran", minCount |-> 500],
                     [attribute |-> "international", minCount |-> 650],
                     [attribute |-> "fashion_forward", minCount |-> 550],
                     [attribute |-> "queer_friendly", minCount |-> 250],
                     [attribute |-> "vinyl_collector", minCount |-> 200],
                     [attribute |-> "german_speaker", minCount |-> 800] >>

\* attributeStatistics of a game: the correlations the policies name.
GameStatistics(s) ==
    [isNone |-> FALSE, keys |-> {"relativeFrequencies", "correlations"},
     correlations |->
        CASE s = 1 -> [young |-> [well_dressed |-> 183]]
          [] s = 2 -> [techno_lover |-> [berlin_local |-> -655, well_connected |-> -470],
                       well_connected |-> [berlin_local |-> 572]]
          [] s = 3 -> [international |-> [german_speaker |-> -717]]]

\* An empty dict of statistics.
EmptyStatistics == [isNone |-> FALSE, keys |-> {}, correlations |-> << >>]

-----------------------------------------------------------------------------
(* The server behind decide_and_next *)

Statuses == {"running", "completed", "failed"}

\* The persons a session's server reveals.
SessionPeople(s) ==
    CASE s = 1 -> {FullMap(1, {}), FullMap(1, {"young"}),
                   FullMap(1, {"young", "well_dressed"})}
      [] s = 2 -> {FullMap(2, {}), FullMap(2, {"creative", "well_connected"}),
                   FullMap(2, {"techno_lover"})}
      [] s = 3 -> {FullMap(3, {}), FullMap(3, {"queer_friendly", "international"}),
                   FullMap(3, {"vinyl_collector"})}

\* The counts the server holds for the game when play_game starts
StartCounts == {<<0, 0>>, <<999, 0>>, <<0, 19999>>}

\* The persons a session has decided when all it accepted are one short of
\* the count of the hard rules
LongSession == HARD_RULE_COUNT - 1

\* The server has MaxPersons persons for a session, and as many from
\* LongSession on for one that has come so far.
NextPersons(s, index) ==
    {None} \cup
    (IF \/ index < MaxPersons
        \/ (index >= LongSession /\ index < LongSession + MaxPersons)
     THEN {[isNone |-> FALSE, personIndex |-> index, attributes |-> p] :
              p \in SessionPeople(s)}
     ELSE {})

\* The nextPerson of an answer: a completed or failed game has none.
AnswerPersons(s, st, index) ==
    IF st = "running" THEN NextPersons(s, index) ELSE {None}

\* Every answer to the first request (personIndex = 0, no decision)
FirstResponses(s) ==
    UNION {{[status |-> st, nextPerson |-> np,
             admittedCount |-> c[1], rejectedCount |-> c[2]] :
               np \in AnswerPersons(s, st, 0), c \in StartCounts} : st \in Statuses}

\* Every answer to a decision: the server adds one to admitted or to rejected.
DecisionResponses(s, prev, index, accept) ==
    UNION {{[status |-> st, nextPerson |-> np,
             admittedCount |-> prev.admittedCount + (IF accept THEN 1 ELSE 0),
             rejectedCount |-> prev.rejectedCount + (IF accept THEN 0 ELSE 1)] :
               np \in AnswerPersons(s, st, index + 1)} : st \in Statuses}

-----------------------------------------------------------------------------
(* play_game *)

NoResult == [exc |-> "none", ret |-> FALSE, line |-> 0]

Init ==
    /\ scenario \in 1..3
    /\ constraints \in {<< >>, GameConstraints(scenario)}
    /\ attribute_statistics \in {None, GameStatistics(scenario)}
    /\ pc = "start"
    /\ response = None
    /\ status = "running"
    /\ person_index = 0
    /\ attributes = << >>
    /\ admitted_count = 0
    /\ rejected_count = 0
    /\ attribute_counts = << >>
    /\ well_connected_encountered = 0
    /\ result = NoResult
    /\ decision_history = << >>
    /\ revealed = << >>
    /\ invoked = << >>
    /\ submitted = << >>
    /\ files = << >>
    /\ sessions = << >>
    /\ now = 0

Reveal(seq, resp) ==
    IF resp.nextPerson.isNone THEN seq ELSE Append(seq, resp.nextPerson.personIndex)

\* response = decide_and_next(BASE_URL, game_id, person_index)
GetFirstPerson ==
    /\ pc = "start"
    /\ \E r \in FirstResponses(scenario) :
          /\ response' = r
          /\ status' = r.status
          /\ revealed' = Reveal(revealed, r)
    /\ pc' = "loop"
    /\ UNCHANGED <<scenario, constraints, attribute_statistics, person_index,
                   attributes, admitted_count, rejected_count, attribute_counts,
                   well_connected_encountered, result, decision_history, invoked,
                   submitted,
                   files, sessions, now>>

\* The head of an iteration that keeps the person of the iteration before
\* when there was one
LoopHead_SamePerson ==
    /\ pc = "loop"
    /\ IF status # "running"
       THEN /\ pc' = "done"
            /\ UNCHANGED <<status, person_index, attributes, admitted_count,
                           rejected_count, well_connected_encountered>>
       ELSE IF response.nextPerson.isNone
       THEN /\ status' = response.status
            /\ pc' = "done"
            /\ UNCHANGED <<person_index, attributes, admitted_count,
                           rejected_count, well_connected_encountered>>
       ELSE /\ person_index' = IF invoked = << >>
                               THEN response.nextPerson.personIndex
                               ELSE person_index
            /\ attributes' = IF invoked = << >>
                             THEN response.nextPerson.attributes
                             ELSE attributes
            /\ admitted_count' = response.admittedCount
            /\ rejected_count' = response.rejectedCount
            /\ well_connected_encountered' =
                  IF scenario \in {2, 3}
                     /\ Get(response.nextPerson.attributes, "well_connected", FALSE)
                  THEN well_connected_encountered + 1
                  ELSE well_connected_encountered
            /\ pc' = "decide"
            /\ UNCHANGED status
    /\ UNCHANGED <<scenario, constraints, attribute_statistics, response,
                   attribute_counts, result, decision_history, revealed, invoked,
                   submitted,
                   files, sessions, now>>

\* The head of an iteration that checks neither the status nor the next
\* person, and goes on with the person it has when the response has none
LoopHead_Unchecked ==
    /\ pc = "loop"
    /\ person_index' = IF response.nextPerson.isNone THEN person_index
                       ELSE response.nextPerson.personIndex
    /\ attributes' = IF response.nextPerson.isNone THEN attributes
                     ELSE response.nextPerson.attributes
    /\ admitted_count' = response.admittedCount
    /\ rejected_count' = response.rejectedCount
    /\ pc' = "decide"
    /\ UNCHANGED <<scenario, constraints, attribute_statistics, response, status,
                   well_connected_encountered, attribute_counts, result,
                   decision_history, revealed, invoked, submitted,
                   files, sessions, now>>

\* while status == "running": the head of an iteration, up to the call of
\* the decision strategy
LoopHead ==
    /\ pc = "loop"
    /\ IF status # "running"
       THEN /\ pc' = "done"
            /\ UNCHANGED <<status, person_index, attributes, admitted_count,
                           rejected_count, well_connected_encountered>>
       ELSE IF response.nextPerson.isNone
       THEN /\ status' = response.status
            /\ pc' = "done"
            /\ UNCHANGED <<person_index, attributes, admitted_count,
                           rejected_count, well_connected_encountered>>
       ELSE /\ person_index' = response.nextPerson.personIndex
            /\ attributes' = response.nextPerson.attributes
            /\ admitted_count' = response.admittedCount
            /\ rejected_count' = response.rejectedCount
            /\ well_connected_encountered' =
                  IF scenario \in {2, 3}
                     /\ Get(response.nextPerson.attributes, "well_connected", FALSE)
                  THEN well_connected_encountered + 1
                  ELSE well_connected_encountered
            /\ pc' = "decide"
            /\ UNCHANGED status
    /\ UNCHANGED <<scenario, constraints, attribute_statistics, response,
                   attribute_counts, result, decision_history, revealed, invoked,
                   submitted,
                   files, sessions, now>>

\* The update without its "if value": every key of the person is counted
CountsAfterAccept_EveryKey(counts, attrs) ==
    LET keys == DOMAIN counts \cup DOMAIN attrs
    IN  IF keys = {} THEN << >>
        ELSE [a \in keys |-> Get(counts, a, 0) + (IF a \in DOMAIN attrs THEN 1 ELSE 0)]

\* for attr, value in attributes.items(): if value: attribute_counts[attr] += 1
CountsAfterAccept(counts, attrs) ==
    LET keys == DOMAIN counts \cup {a \in DOMAIN attrs : attrs[a]}
    IN  IF keys = {} THEN << >>
        ELSE [a \in keys |-> Get(counts, a, 0) + (IF Get(attrs, a, FALSE) THEN 1 ELSE 0)]

\* A decision strategy that counts the person it accepts itself
CallStrategy_Counting ==
    /\ pc = "decide"
    /\ result' = should_accept_person(scenario, attributes, constraints,
                                      admitted_count, attribute_counts,
                                      attribute_statistics, well_connected_encountered)
    /\ attribute_counts' = IF result'.ret
                           THEN CountsAfterAccept(attribute_counts, attributes)
                           ELSE attribute_counts
    /\ invoked' = Append(invoked, person_index)
    /\ pc' = IF result'.exc = "none" THEN "update" ELSE "raised"
    /\ UNCHANGED <<scenario, constraints, attribute_statistics, response, status,
                   person_index, attributes, admitted_count, rejected_count,
                   well_connected_encountered, decision_history, revealed, submitted,
                   files, sessions, now>>

\* accept = decision_strategy(attributes, constraints, admitted_count,
\*                            attribute_counts, admitted_count + rejected_count, ...)
CallStrategy ==
    /\ pc = "decide"
    /\ result' = should_accept_person(scenario, attributes, constraints,
                                      admitted_count, attribute_counts,
                                      attribute_statistics, well_connected_encountered)
    /\ invoked' = Append(invoked, person_index)
    /\ pc' = IF result'.exc = "none" THEN "update" ELSE "raised"
    /\ UNCHANGED <<scenario, constraints, attribute_statistics, response, status,
                   person_index, attributes, admitted_count, rejected_count,
                   attribute_counts, well_connected_encountered, decision_history,
                   revealed, submitted,
                   files, sessions, now>>

\* if accept: update attribute_counts (before the API call)
UpdateCounts ==
    /\ pc = "update"
    /\ attribute_counts' = IF result.ret
                           THEN CountsAfterAccept(attribute_counts, attributes)
                           ELSE attribute_counts
    /\ pc' = "submit"
    /\ UNCHANGED <<scenario, constraints, attribute_statistics, response, status,
                   person_index, attributes, admitted_count, rejected_count,
                   well_connected_encountered, result, decision_history,
                   revealed, invoked, submitted,
                   files, sessions, now>>

\* A record that says accepted whatever the decision was
decision_record_AsAccepted(r) ==
    [personIndex |-> person_index,
     attributes |-> attributes,
     decision |-> "accepted",
     admittedCountBefore |-> admitted_count,
     rejectedCountBefore |-> rejected_count,
     apiResponse |-> r,
     admittedCountAfter |-> r.admittedCount,
     rejectedCountAfter |-> r.rejectedCount]

decision_record(r) ==
    [personIndex |-> person_index,
     attributes |-> attributes,
     decision |-> IF result.ret THEN "accepted" ELSE "rejected",
     admittedCountBefore |-> admitted_count,
     rejectedCountBefore |-> rejected_count,
     apiResponse |-> r,
     admittedCountAfter |-> r.admittedCount,
     rejectedCountAfter |-> r.rejectedCount]

\* The stopping conditions at the end of an iteration
StopsAfter(s, r) ==
    \/ r.status = "completed"
    \/ r.status = "failed"
    \/ r.admittedCount >= MAX_VENUE_CAPACITY(s)
    \/ r.rejectedCount >= MAX_REJECTIONS

\* response = decide_and_next(BASE_URL, game_id, person_index, accept), the
\* counts and the history after it, and the stopping conditions
SubmitDecision ==
    /\ pc = "submit"
    /\ \E r \in DecisionResponses(scenario, response, person_index, result.ret) :
          /\ response' = r
          /\ status' = r.status
          /\ admitted_count' = r.admittedCount
          /\ rejected_count' = r.rejectedCount
          /\ decision_history' = Append(decision_history, decision_record(r))
          /\ revealed' = Reveal(revealed, r)
          /\ pc' = IF StopsAfter(scenario, r) THEN "done" ELSE "loop"
    /\ submitted' = Append(submitted, <<person_index, result.ret>>)
    /\ UNCHANGED <<scenario, constraints, attribute_statistics, person_index,
                   attributes, attribute_counts, well_connected_encountered, result,
                   invoked,
                   files, sessions, now>>

Next ==
    \/ GetFirstPerson
    \/ LoopHead
    \/ CallStrategy
    \/ UpdateCounts
    \/ SubmitDecision

Spec == Init /\ [][Next]_vars

-----------------------------------------------------------------------------
(* The policy at an arbitrary decision point of a session *)

\* Admitted counts around the phase boundaries of each policy
AdmittedGrid(s) ==
    CASE s = 1 -> {0, 399, 400, 599, 600, 699, 700, 799, 800, 899, 900, 999, 1000, 1001}
      [] s = 2 -> {0, 499, 500, 849, 850, 900, 990, 991, 999, 1000, 1001}
      [] s = 3 -> {0, 800, 900, 971, 999, 1000, 1001}

\* Tallies around the targets of each attribute
TallyGrid(s) ==
    CASE s = 1 -> [young |-> {0, 599, 600, 660, 720, 780},
                   well_dressed |-> {0, 510, 540, 599, 600}]
      [] s = 2 -> [techno_lover |-> {0, 650}, well_connected |-> {0, 450},
                   creative |-> {0, 290, 300}, berlin_local |-> {0, 740, 750}]
      [] s = 3 -> [underground_veteran |-> {0, 500}, international |-> {0, 650},
                   fashion_forward |-> {0, 550}, queer_friendly |-> {0, 130, 250},
                   vinyl_collector |-> {0, 130, 200}, german_speaker |-> {0, 800}]

\* The tallies a session can hold with this many admitted: none above it.
TalliesOf(s, admitted) ==
    LET g == TallyGrid(s)
        R(a) == {n \in g[a] : n <= admitted}
    IN  CASE s = 1 -> [young : R("young"), well_dressed : R("well_dressed")]
          [] s = 2 -> [techno_lover : R("techno_lover"), well_connected : R("well_connected"),
                       creative : R("creative"), berlin_local : R("berlin_local")]
          [] s = 3 -> [underground_veteran : R("underground_veteran"),
                       international : R("international"),
                       fashion_forward : R("fashion_forward"),
                       queer_friendly : R("queer_friendly"),
                       vinyl_collector : R("vinyl_collector"),
                       german_speaker : R("german_speaker")]

\* cs without its entries for attribute a
RECURSIVE WithoutEntry(_, _)
WithoutEntry(cs, a) ==
    IF cs = << >> THEN << >>
    ELSE LET rest == WithoutEntry(Tail(cs), a)
         IN  IF "attribute" \in DOMAIN Head(cs) /\ Head(cs).attribute = a
             THEN rest ELSE <<Head(cs)>> \o rest

\* The constraints lists a call is given: the game's, none, the game's with
\* one entry missing, and lists with a malformed entry (no minCount).
ConstraintLists(s) ==
    {GameConstraints(s), << >>}
    \cup {WithoutEntry(GameConstraints(s), a) : a \in TrackedAttributes(s)}
    \cup {Append(GameConstraints(s), [attribute |-> "unknown_attribute"]),
          <<[attribute |-> Head(GameConstraints(s)).attribute]>>
             \o Tail(GameConstraints(s))}

\* The shapes of the attribute map of the person whose true attributes are T
Shapes(s, T) == {FullMap(s, T), SparseMap(T), ExtraMap(s, T)}

\* What varies besides the person and the counts: the shape of the attribute
\* map, the constraints list, the statistics.  One of them varies at a time.
InputVariants(s, T) ==
    {<<m, GameConstraints(s), None>> : m \in Shapes(s, T)}
    \cup {<<FullMap(s, T), c, None>> : c \in ConstraintLists(s)}
    \cup {<<FullMap(s, T), GameConstraints(s), st>> :
             st \in {None, EmptyStatistics, GameStatistics(s)}}

\* The persons of the decision points: any set of true attributes, in
\* scenario 3 up to three of the six or all of them.
PersonKinds(s) ==
    {T \in SUBSET TrackedAttributes(s) :
        Cardinality(T) <= 3 \/ T = TrackedAttributes(s)}

InitDecisionPoint ==
    /\ scenario \in 1..3
    /\ \E T \in PersonKinds(scenario) :
          /\ \E iv \in InputVariants(scenario, T) :
                /\ attributes = iv[1]
                /\ constraints = iv[2]
                /\ attribute_statistics = iv[3]
          /\ well_connected_encountered \in
                IF "well_connected" \in T THEN {1, 15, 16} ELSE {0}
    /\ admitted_count \in AdmittedGrid(scenario)
    /\ attribute_counts \in TalliesOf(scenario, admitted_count)
    /\ rejected_count = 0
    /\ person_index = 1
    /\ response = [status |-> "running",
                   nextPerson |-> [isNone |-> FALSE, personIndex |-> 1,
                                   attributes |-> attributes],
                   admittedCount |-> admitted_count, rejectedCount |-> 0]
    /\ status = "running"
    /\ pc = "decide"
    /\ result = NoResult
    /\ decision_history = << >>
    /\ revealed = <<1>>
    /\ invoked = << >>
    /\ submitted = << >>
    /\ files = << >>
    /\ sessions = << >>
    /\ now = 0

NextPolicy ==
    \/ CallStrategy
    \/ UpdateCounts

SpecPolicy == InitDecisionPoint /\ [][NextPolicy]_vars

-----------------------------------------------------------------------------
(* Decision points of games with other targets *)

\* cs with the minCount of its entries for attribute a set to m
RECURSIVE WithMin(_, _, _)
WithMin(cs, a, m) ==
    IF cs = << >> THEN << >>
    ELSE <<IF Head(cs).attribute = a THEN [Head(cs) EXCEPT !.minCount = m]
           ELSE Head(cs)>> \o WithMin(Tail(cs), a, m)

\* The targets a game may set other than the known ones: none needed (0),
\* and in scenario 1 a low and an unreachable one.
TargetChoices(s) == IF s = 1 THEN {0, 300, 1200} ELSE {0}

\* The constraints lists of such games: the known targets with those of up
\* to two attributes changed.
TargetLists(s) ==
    {GameConstraints(s)}
    \cup {WithMin(WithMin(GameConstraints(s), a, m), b, k) :
             a \in TrackedAttributes(s), b \in TrackedAttributes(s),
             m \in TargetChoices(s), k \in TargetChoices(s)}

\* The state of play_game when a person of a running game is to be decided
DecisionPoint(attrs, cs, stats, wce, admitted, counts) ==
    /\ attributes = attrs
    /\ constraints = cs
    /\ attribute_statistics = stats
    /\ well_connected_encountered = wce
    /\ admitted_count = admitted
    /\ attribute_counts = counts
    /\ rejected_count = 0
    /\ person_index = 1
    /\ response = [status |-> "running",
                   nextPerson |-> [isNone |-> FALSE, personIndex |-> 1,
                                   attributes |-> attrs],
                   admittedCount |-> admitted, rejectedCount |-> 0]
    /\ status = "running"
    /\ pc = "decide"
    /\ result = NoResult
    /\ decision_history = << >>
    /\ revealed = <<1>>
    /\ invoked = << >>
    /\ submitted = << >>
    /\ files = << >>
    /\ sessions = << >>
    /\ now = 0

InitTargets ==
    /\ scenario \in 1..3
    /\ \E T \in PersonKinds(scenario), cs \in TargetLists(scenario),
          admitted \in AdmittedGrid(scenario) :
          \E counts \in TalliesOf(scenario, admitted),
             wce \in IF "well_connected" \in T THEN {1, 15, 16} ELSE {0} :
             DecisionPoint(FullMap(scenario, T), cs, None, wce, admitted, counts)

SpecTargets == InitTargets /\ [][NextPolicy]_vars

-----------------------------------------------------------------------------
(* Decision points with tallies close to the targets *)

\* Admitted counts of the phases, with the middle and the end of the late game
PhaseGrid(s) == AdmittedGrid(s) \cup {950, 980}

\* Tallies of each attribute: none admitted, ten short of the target, at it
NearTallyGrid(s) ==
    [a \in TrackedAttributes(s) |->
        LET min == ConstraintMin(GameConstraints(s), a, 0)
        IN  {0, min - 10, min}]

\* The tallies a session can hold with this many admitted: none above it.
NearTalliesOf(s, admitted) ==
    LET g == NearTallyGrid(s)
        R(a) == {n \in g[a] : n <= admitted}
    IN  CASE s = 1 -> [young : R("young"), well_dressed : R("well_dressed")]
          [] s = 2 -> [techno_lover : R("techno_lover"), well_connected : R("well_connected"),
                       creative : R("creative"), berlin_local : R("berlin_local")]
          [] s = 3 -> [underground_veteran : R("underground_veteran"),
                       international : R("international"),
                       fashion_forward : R("fashion_forward"),
                       queer_friendly : R("queer_friendly"),
                       vinyl_collector : R("vinyl_collector"),
                       german_speaker : R("german_speaker")]

InitPhases ==
    /\ scenario \in 1..3
    /\ \E T \in PersonKinds(scenario), admitted \in PhaseGrid(scenario) :
          \E counts \in NearTalliesOf(scenario, admitted),
             wce \in IF "well_connected" \in T THEN {1, 15, 16} ELSE {0} :
             DecisionPoint(FullMap(scenario, T), GameConstraints(scenario), None,
                           wce, admitted, counts)

SpecPhases == InitPhases /\ [][NextPolicy]_vars

-----------------------------------------------------------------------------
(* main: play_game, then save_game_attempt, then save_leaderboard_entry *)

\* The variables of play_game
play_vars == <<scenario, constraints, attribute_statistics, pc, response, status,
               person_index, attributes, admitted_count, rejected_count,
               attribute_counts, well_connected_encountered, result,
               decision_history, revealed, invoked, submitted>>

\* No play_game of this model is running: the runs are in sessions.
NotPlaying ==
    /\ scenario = 1
    /\ constraints = GameConstraints(1)
    /\ attribute_statistics = None
    /\ pc = "done"
    /\ response = None
    /\ status = "completed"
    /\ person_index = 0
    /\ attributes = << >>
    /\ admitted_count = 0
    /\ rejected_count = 0
    /\ attribute_counts = << >>
    /\ well_connected_encountered = 0
    /\ result = NoResult
    /\ decision_history = << >>
    /\ revealed = << >>
    /\ invoked = << >>
    /\ submitted = << >>

ATTEMPTS_FILE == "game_attempts.json"
LEADERBOARD_FILE == "leaderboard.json"
HISTORY_FILES == "decision_history_*.json"

\* What open(filename, 'w') leaves until the dump is written: no valid JSON
Truncated == [valid |-> FALSE, data |-> << >>]

\* What a finished json.dump leaves
Json(data) == [valid |-> TRUE, data |-> data]

\* json.load of a file, or the value the except clauses leave: the file is
\* missing (FileNotFoundError) or is not valid JSON (JSONDecodeError)
LoadJson(filename, fresh) ==
    IF filename \notin DOMAIN files \/ ~files[filename].valid
    THEN fresh ELSE files[filename].data

\* The files with this one replaced
WithFile(filename, content) ==
    [f \in DOMAIN files \cup {filename} |->
        IF f = filename THEN content ELSE files[f]]

\* The two runs of main that save at the same time
Runs == {1, 2}

GameIds == {"game-a", "game-b"}

\* What play_game returns
PlayedResults ==
    {[status |-> "completed", admittedCount |-> 1000, rejectedCount |-> 5000,
      attributeCounts |-> [young |-> 600, well_dressed |-> 610],
      decisionHistory |-> <<"accepted">>, initialResponse |-> "running"],
     [status |-> "failed", admittedCount |-> 998, rejectedCount |-> 20000,
      attributeCounts |-> [young |-> 600, well_dressed |-> 590],
      decisionHistory |-> <<"rejected">>, initialResponse |-> "running"]}

\* One attempt saved by an earlier run of main
EarlierAttempt ==
    [attemptNumber |-> 1, timestamp |-> 0, status |-> "failed",
     admittedCount |-> 990, rejectedCount |-> 20000,
     attributeCounts |-> [young |-> 590, well_dressed |-> 590],
     decisionHistory |-> << >>, initialResponse |-> "running"]

EarlierEntry ==
    [gameId |-> "game-a", date |-> 0, status |-> "failed", admitted |-> 990,
     rejected |-> 20000, totalProcessed |-> 20990,
     constraintStatus |->
        [young |-> [count |-> 590, minRequired |-> 600, met |-> FALSE],
         well_dressed |-> [count |-> 590, minRequired |-> 600, met |-> FALSE]],
     totalDecisionsRecorded |-> 0]

\* The working directory before the runs: empty, or after one earlier run
StoredFiles ==
    {<< >>,
     [f \in {ATTEMPTS_FILE, LEADERBOARD_FILE, HISTORY_FILES} |->
        CASE f = ATTEMPTS_FILE ->
                Json([g \in {"game-a"} |->
                        [gameId |-> g, attempts |-> <<EarlierAttempt>>]])
          [] f = LEADERBOARD_FILE -> Json(<<EarlierEntry>>)
          [] f = HISTORY_FILES -> Json([k \in {<<"game-a", 1>>} |-> << >>])]}

\* The locals of a run of main that has not started
NewRun(game_id, results) ==
    [pc |-> "play", game_id |-> game_id, played |-> results, results |-> None,
     all_attempts |-> << >>, attempt_number |-> 0, attempt_record |-> None,
     leaderboard |-> << >>, entry |-> None]

InitSaving ==
    /\ NotPlaying
    /\ files \in StoredFiles
    /\ sessions \in [Runs -> {NewRun(g, r) : g \in GameIds, r \in PlayedResults}]
    /\ now = 1

\* results = play_game(game_id, constraints, ...): no file is written
Play ==
    \E p \in Runs :
        /\ sessions[p].pc = "play"
        /\ sessions' = [sessions EXCEPT ![p].results = sessions[p].played,
                                        ![p].pc = "load_attempts"]
        /\ UNCHANGED <<play_vars, files, now>>

\* save_game_attempt up to the append: load, the game's entry, the record
LoadAttempts ==
    \E p \in Runs :
        /\ sessions[p].pc = "load_attempts"
        /\ LET game_id == sessions[p].game_id
               results == sessions[p].results
               loaded == LoadJson(ATTEMPTS_FILE, << >>)
               game == IF game_id \in DOMAIN loaded THEN loaded[game_id]
                       ELSE [gameId |-> game_id, attempts |-> << >>]
               attempt_number == Len(game.attempts) + 1
               attempt_record ==
                   [attemptNumber |-> attempt_number, timestamp |-> now,
                    status |-> results.status,
                    admittedCount |-> results.admittedCount,
                    rejectedCount |-> results.rejectedCount,
                    attributeCounts |-> results.attributeCounts,
                    decisionHistory |-> results.decisionHistory]
               all_attempts ==
                   [g \in DOMAIN loaded \cup {game_id} |->
                       IF g = game_id
                       THEN [game EXCEPT !.attempts = Append(@, attempt_record)]
                       ELSE loaded[g]]
           IN  sessions' = [sessions EXCEPT ![p].all_attempts = all_attempts,
                                            ![p].attempt_number = attempt_number,
                                            ![p].attempt_record = attempt_record,
                                            ![p].pc = "open_attempts"]
        /\ now' \in {now, now + 1}
        /\ UNCHANGED <<play_vars, files>>

\* with open(filename, 'w') as f:
OpenAttempts ==
    \E p \in Runs :
        /\ sessions[p].pc = "open_attempts"
        /\ files' = WithFile(ATTEMPTS_FILE, Truncated)
        /\ sessions' = [sessions EXCEPT ![p].pc = "dump_attempts"]
        /\ UNCHANGED <<play_vars, now>>

\* json.dump(all_attempts, f, indent=2)
DumpAttempts ==
    \E p \in Runs :
        /\ sessions[p].pc = "dump_attempts"
        /\ files' = WithFile(ATTEMPTS_FILE, Json(sessions[p].all_attempts))
        /\ sessions' = [sessions EXCEPT ![p].pc = "save_history"]
        /\ UNCHANGED <<play_vars, now>>

\* decision_history_{game_id}_attempt_{attempt_number}.json
SaveHistory ==
    \E p \in Runs :
        /\ sessions[p].pc = "save_history"
        /\ LET saved == LoadJson(HISTORY_FILES, << >>)
               name == <<sessions[p].game_id, sessions[p].attempt_number>>
           IN  files' = WithFile(HISTORY_FILES,
                           Json([k \in DOMAIN saved \cup {name} |->
                                   IF k = name THEN sessions[p].results.decisionHistory
                                   ELSE saved[k]]))
        /\ sessions' = [sessions EXCEPT ![p].pc = "load_leaderboard"]
        /\ UNCHANGED <<play_vars, now>>

\* constraint_status of save_leaderboard_entry
ConstraintStatus(cs, counts) ==
    [a \in {cs[i].attribute : i \in 1..Len(cs)} |->
        LET min_count == ConstraintMin(cs, a, 0)
            current_count == Get(counts, a, 0)
        IN  [count |-> current_count, minRequired |-> min_count,
             met |-> current_count >= min_count]]

\* e put into a list sorted by date, most recent first, behind the entries
\* of its date
RECURSIVE InsertByDate(_, _)
InsertByDate(sorted, e) ==
    IF sorted = << >> THEN <<e>>
    ELSE IF Head(sorted).date >= e.date
         THEN <<Head(sorted)>> \o InsertByDate(Tail(sorted), e)
         ELSE <<e>> \o sorted

\* leaderboard.sort(key=lambda x: x["date"], reverse=True): a stable sort
RECURSIVE SortByDate(_)
SortByDate(entries) ==
    IF entries = << >> THEN << >>
    ELSE InsertByDate(SortByDate(SubSeq(entries, 1, Len(entries) - 1)),
                      entries[Len(entries)])

\* save_leaderboard_entry up to the sort: load, the entry, append, sort
LoadLeaderboard ==
    \E p \in Runs :
        /\ sessions[p].pc = "load_leaderboard"
        /\ LET results == sessions[p].results
               loaded == LoadJson(LEADERBOARD_FILE, << >>)
               entry ==
                   [gameId |-> sessions[p].game_id, date |-> now,
                    status |-> results.status,
                    admitted |-> results.admittedCount,
                    rejected |-> results.rejectedCount,
                    totalProcessed |-> results.admittedCount + results.rejectedCount,
                    constraintStatus |->
                        ConstraintStatus(constraints, results.attributeCounts),
                    totalDecisionsRecorded |-> Len(results.decisionHistory)]
           IN  sessions' = [sessions EXCEPT
                               ![p].leaderboard = SortByDate(Append(loaded, entry)),
                               ![p].entry = entry,
                               ![p].pc = "open_leaderboard"]
        /\ now' \in {now, now + 1}
        /\ UNCHANGED <<play_vars, files>>

OpenLeaderboard ==
    \E p \in Runs :
        /\ sessions[p].pc = "open_leaderboard"
        /\ files' = WithFile(LEADERBOARD_FILE, Truncated)
        /\ sessions' = [sessions EXCEPT ![p].pc = "dump_leaderboard"]
        /\ UNCHANGED <<play_vars, now>>

DumpLeaderboard ==
    \E p \in Runs :
        /\ sessions[p].pc = "dump_leaderboard"
        /\ files' = WithFile(LEADERBOARD_FILE, Json(sessions[p].leaderboard))
        /\ sessions' = [sessions EXCEPT ![p].pc = "done"]
        /\ UNCHANGED <<play_vars, now>>

NextSaving ==
    \/ Play
    \/ LoadAttempts
    \/ OpenAttempts
    \/ DumpAttempts
    \/ SaveHistory
    \/ LoadLeaderboard
    \/ OpenLeaderboard
    \/ DumpLeaderboard

SpecSaving == InitSaving /\ [][NextSaving]_vars

-----------------------------------------------------------------------------
(* The game information store of scenario 3: save_to_file of create_game.py
   and load_game_info of play_game.py *)

GAME_INFO_FILE == "game_info.json"

\* The values of the store: a str, a dict, or None
Str(s) == [isNone |-> FALSE, str |-> s]
Dict(d) == [isNone |-> FALSE, dict |-> d]

\* isinstance(v, str)
IsStr(v) == "str" \in DOMAIN v

\* if game_id:
Truthy(v) == IsStr(v) /\ v.str # ""

\* The gameIds a server may answer with; no key of a game is excluded
StoreGameIds == {"game-a", "game-b", "gameId"}

PlayerIds == {"player-1", "player-2"}

\* store_game_info: the game of a response, whose gameId may be missing
GameInfos ==
    {[gameId |-> id, playerId |-> Str(player)] :
        id \in {Str(i) : i \in StoreGameIds \cup {""}} \cup {None},
        player \in PlayerIds}

\* "gameId" in data and isinstance(data["gameId"], str)
IsOldFormat(data) == "gameId" \in DOMAIN data /\ IsStr(data["gameId"])

\* all_games as save_to_file takes existing_data without migrating it
all_games_of_Unmigrated(existing_data) == existing_data

\* all_games of save_to_file after loading: an old format game is migrated
\* under its gameId
all_games_of(existing_data) ==
    IF IsOldFormat(existing_data)
    THEN [old_game_id \in {existing_data["gameId"].str} |-> Dict(existing_data)]
    ELSE existing_data

\* The files an earlier version or an earlier run may have left: none, one
\* that is not valid JSON, a single game in the old format, no game
GameInfoFiles ==
    {<< >>}
    \cup {[f \in {GAME_INFO_FILE} |-> content] :
             content \in {Truncated, Json(<< >>)} \cup {Json(g) : g \in GameInfos}}

\* The scripts that use the store, before they have called it
NoCalls ==
    [create_game |-> [called |-> FALSE, game_info |-> None, before |-> << >>],
     play_game |-> [called |-> FALSE, game_id |-> "", returned |-> None]]

InitStore ==
    /\ NotPlaying
    /\ files \in GameInfoFiles
    /\ sessions = NoCalls
    /\ now = 0

\* save_to_file(game_info)
save_to_file ==
    \E game_info \in GameInfos :
        LET existing_data == LoadJson(GAME_INFO_FILE, << >>)
            all_games == all_games_of(existing_data)
            game_id == Get(game_info, "gameId", None)
            stored == [k \in DOMAIN all_games \cup {game_id.str} |->
                          IF k = game_id.str THEN Dict(game_info) ELSE all_games[k]]
        IN  /\ files' = IF Truthy(game_id)
                        THEN WithFile(GAME_INFO_FILE, Json(stored))
                        ELSE files
            /\ sessions' = [NoCalls EXCEPT
                               !.create_game = [called |-> TRUE,
                                                game_info |-> game_info,
                                                before |-> files]]
            /\ UNCHANGED <<play_vars, now>>

\* What load_game_info(game_id) returns for a game_id that is a non-empty str
load_game_info_of(game_id) ==
    IF GAME_INFO_FILE \notin DOMAIN files \/ ~files[GAME_INFO_FILE].valid
    THEN None
    ELSE LET all_games == files[GAME_INFO_FILE].data
         IN  IF IsOldFormat(all_games)
             THEN IF Get(all_games, "gameId", None) = Str(game_id)
                  THEN all_games ELSE None
             ELSE IF game_id \in DOMAIN all_games
                  THEN IF "dict" \in DOMAIN all_games[game_id]
                       THEN all_games[game_id].dict
                       ELSE all_games[game_id]
                  ELSE None

\* load_game_info(game_id)
load_game_info ==
    \E game_id \in StoreGameIds :
        /\ sessions' = [sessions EXCEPT
                           !.play_game = [called |-> TRUE, game_id |-> game_id,
                                          returned |-> load_game_info_of(game_id)]]
        /\ UNCHANGED <<play_vars, files, now>>

NextStore ==
    \/ save_to_file
    \/ load_game_info

SpecStore == InitStore /\ [][NextStore]_vars

-----------------------------------------------------------------------------
(* play_game of scenario 3 late in a session that started with empty tallies *)

\* The i-th person (from 0) of a session whose first k persons carry
\* queer_friendly and vinyl_collector and whose others carry queer_friendly
GatePerson(i, k) ==
    FullMap(3, IF i < k THEN {"queer_friendly", "vinyl_collector"}
               ELSE {"queer_friendly"})

\* The answer to the decision on person i of such a session, all accepted:
\* the game goes on with the person next
GateResponse(i, next) ==
    [status |-> "running",
     nextPerson |-> [isNone |-> FALSE, personIndex |-> i + 1, attributes |-> next],
     admittedCount |-> i + 1, rejectedCount |-> 0]

\* decision_history after n such persons, the person after them being last
GateHistory(n, k, last) ==
    [j \in 1..n |->
        LET r == GateResponse(j - 1, IF j = n THEN last ELSE GatePerson(j, k))
        IN  [personIndex |-> j - 1,
             attributes |-> GatePerson(j - 1, k),
             decision |-> "accepted",
             admittedCountBefore |-> j - 1,
             rejectedCountBefore |-> 0,
             apiResponse |-> r,
             admittedCountAfter |-> r.admittedCount,
             rejectedCountAfter |-> r.rejectedCount]]

\* The sessions: all of LongSession persons accepted on queer_friendly alone,
\* or one more than that, all of whom but the last carry vinyl_collector too
GateSessions == {<<LongSession, 0>>, <<LongSession + 1, LongSession>>}

\* The state at the end of the iteration that decided the n-th person
InitGates ==
    /\ scenario = 3
    /\ constraints = GameConstraints(3)
    /\ attribute_statistics = None
    /\ pc = "loop"
    /\ status = "running"
    /\ \E g \in GateSessions, last \in SessionPeople(3) :
          LET n == g[1]
              k == g[2]
          IN  /\ response = GateResponse(n - 1, last)
              /\ person_index = n - 1
              /\ attributes = GatePerson(n - 1, k)
              /\ admitted_count = n
              /\ rejected_count = 0
              /\ attribute_counts =
                    [a \in {"queer_friendly"}
                           \cup (IF k > 0 THEN {"vinyl_collector"} ELSE {}) |->
                        IF a = "queer_friendly" THEN n ELSE k]
              /\ result = Return(TRUE, 258)
              /\ decision_history = GateHistory(n, k, last)
              /\ revealed = [j \in 1..(n + 1) |-> j - 1]
              /\ invoked = [j \in 1..n |-> j - 1]
              /\ submitted = [j \in 1..n |-> <<j - 1, TRUE>>]
    /\ well_connected_encountered = 0
    /\ files = << >>
    /\ sessions = << >>
    /\ now = 0

\* The iterations of the loop
NextLoop ==
    \/ LoopHead
    \/ CallStrategy
    \/ UpdateCounts
    \/ SubmitDecision

SpecGates == InitGates /\ [][NextLoop]_vars

-----------------------------------------------------------------------------
(* Properties *)

\* The decision strategy has just been called.
Called == pc \in {"update", "raised"}

AttributeNames ==
    UNION {TrackedAttributes(s) : s \in 1..3} \cup {"unknown_attribute"}

\* C1: in each of the three policies should_accept_person rejects every
\* candidate, whatever the tallies and the statistics, whenever
\* admitted_count is at or above the capacity of 1000 admitted people.
C1_CapacityGuard ==
    (Called /\ admitted_count >= DocumentedCapacity)
        => (result.exc = "none" /\ ~result.ret)

\* C2: should_accept_person has no side effect: the attribute_counts map,
\* the constraints list, the candidate's attribute map and the statistics
\* are the same after the call as before it.
C2_NoSideEffects ==
    [][pc = "decide" =>
          /\ attribute_counts' = attribute_counts
          /\ constraints' = constraints
          /\ attributes' = attributes
          /\ attribute_statistics' = attribute_statistics]_vars

\* A call that accepted a person with a true attribute, statistics given.
C2_Witness ==
    /\ pc = "update"
    /\ result.ret
    /\ invoked = <<1>>
    /\ ~attribute_statistics.isNone
    /\ \E a \in DOMAIN attributes : attributes[a]

\* C3: in play_game the tallies change only on acceptance: a rejected
\* candidate leaves every tally unchanged, an accepted candidate adds exactly
\* 1 to the tally of each attribute it carries as true and leaves every
\* other tally unchanged.
C3_TalliesOnlyOnAcceptance ==
    [][/\ pc = "update" =>
             \A a \in AttributeNames :
                Get(attribute_counts', a, 0) =
                   Get(attribute_counts, a, 0)
                   + (IF result.ret /\ Get(attributes, a, FALSE) THEN 1 ELSE 0)
       /\ pc # "update" => attribute_counts' = attribute_counts]_vars

\* An accepted person with a true and a false attribute has been counted.
C3_Witness ==
    /\ pc = "submit"
    /\ result.ret
    /\ \E a, b \in DOMAIN attributes :
          /\ attributes[a] /\ Get(attribute_counts, a, 0) = 1
          /\ ~attributes[b] /\ Get(attribute_counts, b, 0) = 0

\* The points of play_game between two iterations and after the loop, where
\* the counts and the tallies describe the same decisions.
BetweenDecisions == pc \in {"loop", "decide", "done"}

\* C4: in every state of a session of play_game, against a server that adds
\* exactly one to admitted or rejected per submitted decision, the admitted
\* count is at most the capacity (1000), every tally of attribute_counts is
\* at most admitted_count, and rejected_count never decreases.  The counts
\* are read between decisions; decision_history holds rejected_count before
\* and after each decision.
C4_RunningStateInvariant ==
    BetweenDecisions =>
        /\ admitted_count <= DocumentedCapacity
        /\ \A a \in DOMAIN attribute_counts : attribute_counts[a] <= admitted_count
        /\ \A i \in 1..Len(decision_history) :
              /\ decision_history[i].rejectedCountBefore
                    <= decision_history[i].rejectedCountAfter
              /\ i > 1 => decision_history[i - 1].rejectedCountAfter
                             <= decision_history[i].rejectedCountBefore
        /\ (decision_history # << >> =>
               decision_history[Len(decision_history)].rejectedCountAfter
                  <= rejected_count)

IsPrefix(p, q) == Len(p) <= Len(q) /\ SubSeq(q, 1, Len(p)) = p

SubmittedIndices == [i \in 1..Len(submitted) |-> submitted[i][1]]

\* The calls follow the arrivals, the submissions follow the calls, and no
\* person is obtained before the decision on the one before is submitted.
InArrivalOrder ==
    /\ IsPrefix(invoked, revealed)
    /\ IsPrefix(SubmittedIndices, invoked)
    /\ Len(invoked) <= Len(submitted) + 1
    /\ Len(revealed) <= Len(submitted) + 1
    /\ \A i \in 1..Len(submitted) :
          /\ decision_history[i].personIndex = submitted[i][1]
          /\ (decision_history[i].decision = "accepted") = submitted[i][2]

C6_SessionEnds ==
    /\ pc \in {"decide", "update", "submit"} =>
          /\ status = "running"
          /\ ~response.nextPerson.isNone
    /\ (submitted # << >> /\ pc # "done") =>
          /\ response.status = "running"
          /\ response.admittedCount < DocumentedCapacity
          /\ response.rejectedCount < MAX_REJECTIONS

\* The default minimums as documented, by scenario
DocumentedDefaultMin(s) ==
    CASE s = 1 -> [young |-> 600, well_dressed |-> 600]
      [] s = 2 -> [techno_lover |-> 650, well_connected |-> 450,
                   creative |-> 300, berlin_local |-> 750]
      [] s = 3 -> [underground_veteran |-> 500, international |-> 650,
                   fashion_forward |-> 550, queer_friendly |-> 250,
                   vinyl_collector |-> 200, german_speaker |-> 800]

WellFormedEntry(e) == {"attribute", "minCount"} \subseteq DOMAIN e

NamedAttributes(cs) ==
    {cs[i].attribute : i \in {j \in 1..Len(cs) : WellFormedEntry(cs[j])}}

MissingAttributes(s, cs) == TrackedAttributes(s) \ NamedAttributes(cs)

\* The well-formed entries of cs, and the documented default for every
\* tracked attribute they do not name
WithDocumentedDefaults(s, cs) ==
    LET kept == SelectSeq(cs, WellFormedEntry)
        order == [i \in 1..Len(GameConstraints(s)) |-> GameConstraints(s)[i].attribute]
        missing == SelectSeq(order, LAMBDA a : a \in MissingAttributes(s, cs))
    IN  kept \o [i \in 1..Len(missing) |->
                   [attribute |-> missing[i],
                    minCount |-> DocumentedDefaultMin(s)[missing[i]]]]

\* The decision of the call of this state had the constraints been cs
DecisionWith(cs) ==
    should_accept_person(scenario, attributes, cs, admitted_count,
                         attribute_counts, attribute_statistics,
                         well_connected_encountered)

\* C7: for every candidate and state, should_accept_person called with a
\* constraints list that lacks the entry of a tracked attribute returns
\* without raising, with the decision it gives when that attribute's
\* documented default minimum is supplied explicitly.
C7_DefaultFallback ==
    (/\ Called
     /\ \A i \in 1..Len(constraints) : WellFormedEntry(constraints[i])
     /\ MissingAttributes(scenario, constraints) # {})
        => /\ result.exc = "none"
           /\ result.ret = DecisionWith(WithDocumentedDefaults(scenario, constraints)).ret

\* A person accepted for an attribute whose entry is missing, tallies moved.
C7_Witness ==
    /\ pc = "update"
    /\ result.ret
    /\ \A i \in 1..Len(constraints) : WellFormedEntry(constraints[i])
    /\ \E a \in MissingAttributes(scenario, constraints) :
          /\ Get(attributes, a, FALSE)
          /\ attribute_counts[a] > 0
          /\ \A b \in TrackedAttributes(scenario) \ {a} : ~Get(attributes, b, FALSE)

\* C8: an entry of the constraints list with no minCount (or naming an
\* attribute the scenario does not track) is not fatal: should_accept_person
\* does not raise, uses the documented default minimum for the attribute
\* and returns a boolean.
C8_MalformedEntryNotFatal ==
    (/\ Called
     /\ \E i \in 1..Len(constraints) :
           \/ "minCount" \notin DOMAIN constraints[i]
           \/ constraints[i].attribute \notin TrackedAttributes(scenario))
        => /\ result.exc = "none"
           /\ result.ret = DecisionWith(WithDocumentedDefaults(scenario, constraints)).ret

\* The attribute map with every tracked key and no other, false where the
\* key was missing
AsFullMap(s, attrs) ==
    [a \in TrackedAttributes(s) |-> IF a \in DOMAIN attrs THEN attrs[a] ELSE FALSE]

\* C9: for every state, the decision for an attribute map that omits a
\* tracked attribute is the decision for the same map with that attribute
\* false, and keys the scenario does not track change nothing and raise
\* nothing.
C9_MissingAttributesAreFalse ==
    (Called /\ attributes # AsFullMap(scenario, attributes))
        => result = should_accept_person(scenario, AsFullMap(scenario, attributes),
                                         constraints, admitted_count,
                                         attribute_counts, attribute_statistics,
                                         well_connected_encountered)

\* A person of scenario 3 given by the true keys alone, accepted.
C9_Witness ==
    /\ pc = "update"
    /\ scenario = 3
    /\ result.ret
    /\ DOMAIN attributes # {}
    /\ DOMAIN attributes \subseteq TrackedAttributes(3)
    /\ DOMAIN attributes # TrackedAttributes(3)

\* The return statements of the rules for the pairs of attributes
\* (techno_lover + berlin_local, well_connected + berlin_local;
\* international + german_speaker)
ComboReturnLines(s) ==
    CASE s = 1 -> {}
      [] s = 2 -> {344, 347, 348, 404, 408, 409, 418, 421, 422}
      [] s = 3 -> {333, 337, 339}

ConstraintsWellFormed ==
    \A i \in 1..Len(constraints) : WellFormedEntry(constraints[i])

ResultWithStatistics(stats) ==
    should_accept_person(scenario, attributes, constraints, admitted_count,
                         attribute_counts, stats, well_connected_encountered)

-----------------------------------------------------------------------------
(* The targets and the rules of the policies *)

\* The strategy has returned a decision on well-formed constraints.
Decided == Called /\ ConstraintsWellFormed /\ result.exc = "none"

\* The target of attribute a in the constraints of the state
TargetOf(a) ==
    ConstraintMin(constraints, a, DocumentedDefaultMin(scenario)[a])

\* The decision of the state's call with the tally of a replaced by n
DecisionWithTally(a, n) ==
    should_accept_person(scenario, attributes, constraints, admitted_count,
                         [attribute_counts EXCEPT ![a] = n],
                         attribute_statistics, well_connected_encountered)

\* The tallies of a that the admitted count of the state allows
TalliesAllowed(a) ==
    {n \in TallyGrid(scenario)[a] : n <= admitted_count}

\* C11: for every tracked attribute whose minCount is 0, the call raises
\* nothing and the tally of that attribute decides nothing: the decision is
\* the same whatever that tally is, so nobody is accepted or rejected
\* because that tally is low.
C11_ZeroTargetDecidesNothing ==
    Called =>
        \A a \in TrackedAttributes(scenario) :
            TargetOf(a) = 0 =>
                /\ result.exc = "none"
                /\ \A n \in TalliesAllowed(a) :
                      DecisionWithTally(a, n).ret = result.ret

\* The rare attributes of the scenarios
RareAttributes(s) ==
    CASE s = 1 -> {}
      [] s = 2 -> {"creative"}
      [] s = 3 -> {"queer_friendly", "vinyl_collector"}

\* The person of the state has attribute a
Carries(a) == a \in DOMAIN attributes /\ attributes[a]

\* The person was accepted and stays accepted when the tally of a is lower
StaysAcceptedWithLowerTally(a) ==
    \A n \in TalliesAllowed(a) :
        n < attribute_counts[a] => DecisionWithTally(a, n).ret

\* C12 as stated: for every candidate accepted while a rare attribute is
\* below its target, the candidate is accepted also with a lower tally of
\* that attribute, everything else the same.
C12_LowerRareTallyKeepsAccept ==
    (Decided /\ result.ret) =>
        \A a \in RareAttributes(scenario) :
            attribute_counts[a] < TargetOf(a) => StaysAcceptedWithLowerTally(a)

\* C12: the same for every candidate carrying that rare attribute.
C12_LowerRareTallyKeepsCarrierAccepted ==
    (Decided /\ result.ret) =>
        \A a \in RareAttributes(scenario) :
            (Carries(a) /\ attribute_counts[a] < TargetOf(a))
                => StaysAcceptedWithLowerTally(a)

\* A carrier of a rare attribute accepted with the tally below the target
\* and above a tally the grid holds.
C12_Witness ==
    /\ pc = "update"
    /\ result.ret
    /\ \E a \in RareAttributes(scenario) :
          /\ Carries(a)
          /\ attribute_counts[a] < TargetOf(a)
          /\ \E n \in TalliesAllowed(a) : n < attribute_counts[a]

\* The person carries a and the tally of a is below its target
StillNeeded(a) == Carries(a) /\ attribute_counts[a] < TargetOf(a)

\* a is short of its target by no more than DEFICIT_MODERATE and is not rare
NonCritical(a) ==
    /\ TargetOf(a) - attribute_counts[a] <= P3.DEFICIT_MODERATE
    /\ a \notin RareAttributes(scenario)

\* The person has exactly one still-needed attribute, and it is non-critical
SingleNonCriticalNeed ==
    \E a \in TrackedAttributes(scenario) :
        /\ StillNeeded(a)
        /\ NonCritical(a)
        /\ \A b \in TrackedAttributes(scenario) \ {a} : ~StillNeeded(b)

\* The decision of the state's call with the admitted count replaced by n
DecisionAtAdmitted(n) ==
    should_accept_person(scenario, attributes, constraints, n, attribute_counts,
                         attribute_statistics, well_connected_encountered)

\* C13: a candidate with exactly one still-needed, non-critical attribute
\* who is rejected at the admitted count of the state is rejected at every
\* larger admitted count, the tallies being the same.
C13_RejectedStaysRejectedLater ==
    (Decided /\ ~result.ret /\ SingleNonCriticalNeed) =>
        \A n \in PhaseGrid(scenario) :
            n > admitted_count => ~DecisionAtAdmitted(n).ret

\* The attributes of the person whose tallies are below their targets
NeededAttributes == {a \in TrackedAttributes(scenario) : StillNeeded(a)}

\* Those of them with a large outstanding deficit: more than
\* DEFICIT_MODERATE short, a rare attribute always
CriticalAttributes ==
    {a \in NeededAttributes :
        \/ a \in RareAttributes(scenario)
        \/ TargetOf(a) - attribute_counts[a] > P3.DEFICIT_MODERATE}

\* The venue is not full: admitted_count is below the capacity of the game
VenueNotFull == admitted_count < DocumentedCapacity

\* C14: in scenarios 2 and 3, while the venue is not full, a candidate with
\* three or more still-needed attributes, or two or more with a large
\* deficit, is accepted.
C14_MultiNeedAccepted ==
    (/\ Decided
     /\ scenario \in {2, 3}
     /\ VenueNotFull
     /\ \/ Cardinality(NeededAttributes) >= 3
        \/ Cardinality(CriticalAttributes) >= 2)
        => result.ret

\* The strongly negatively correlated pair of the scenario
NegativePair(s) ==
    CASE s = 1 -> {}
      [] s = 2 -> {"techno_lover", "berlin_local"}
      [] s = 3 -> {"international", "german_speaker"}

\* C15: in scenarios 2 and 3, while the venue is not full, a candidate
\* carrying both attributes of the negatively correlated pair is accepted
\* whenever the tally of at least one of the two is below its target.
C15_NegativePairAccepted ==
    (/\ Decided
     /\ scenario \in {2, 3}
     /\ VenueNotFull
     /\ \A a \in NegativePair(scenario) : Carries(a)
     /\ \E a \in NegativePair(scenario) : attribute_counts[a] < TargetOf(a))
        => result.ret

\* venue_fill_ratio >= VENUE_FILL_EMPTY, the largest of the cutoffs of an
\* empty venue
PastEmptyVenue ==
    ~FillBelow(admitted_count, MAX_VENUE_CAPACITY(scenario), P2.VENUE_FILL_EMPTY)

\* C16 as stated: a candidate none of whose true attributes has a tally
\* below its target is rejected whenever the fill ratio is at least 0.05.
C16_NoNeedRejected ==
    (Decided /\ NeededAttributes = {} /\ PastEmptyVenue) => ~result.ret

\* The person has no true tracked attribute
NoTrueAttribute == \A a \in TrackedAttributes(scenario) : ~Carries(a)

\* C16: a candidate with no true attribute is rejected whenever the fill
\* ratio is at least 0.05.
C16_NoAttributeRejected ==
    (Decided /\ NoTrueAttribute /\ PastEmptyVenue) => ~result.ret

\* A candidate of scenario 2 with no true attribute, decided past the
\* empty venue while the creative tally is close to its target.
C16_Witness ==
    /\ pc = "update"
    /\ ConstraintsWellFormed
    /\ scenario = 2
    /\ NoTrueAttribute
    /\ PastEmptyVenue
    /\ VenueNotFull
    /\ TargetOf("creative") - attribute_counts["creative"] <= P2.DEFICIT_MODERATE
    /\ ~result.ret

\* C17: in scenario 3, while the venue is not full, every candidate
\* carrying queer_friendly is accepted while the queer_friendly tally is
\* below its target, and every candidate carrying vinyl_collector while
\* the vinyl_collector tally is below its target.
C17_RareCarrierAccepted ==
    (/\ Decided
     /\ scenario = 3
     /\ VenueNotFull
     /\ \E a \in RareAttributes(3) : StillNeeded(a))
        => result.ret

\* C18: in scenario 2 a candidate carrying creative is accepted whenever
\* the creative tally is below creative_min, at every admitted count, a
\* full venue included.
C18_CreativeAcceptedBelowMin ==
    (Decided /\ scenario = 2 /\ StillNeeded("creative")) => result.ret

\* C19: in scenario 1, while the venue is not full, a candidate who is both
\* young and well_dressed is accepted and a candidate who is neither is
\* rejected, whatever the tallies, the minimums and the admitted count are.
C19_FixedDecisions ==
    (Decided /\ scenario = 1 /\ ~venue_is_full(1, admitted_count)) =>
        /\ (Carries("young") /\ Carries("well_dressed")) => result.ret
        /\ (~Carries("young") /\ ~Carries("well_dressed")) => ~result.ret

\* A young and well_dressed candidate accepted late in the game when both
\* tallies have reached their minimums.
C19_Witness ==
    /\ pc = "update"
    /\ scenario = 1
    /\ Carries("young") /\ Carries("well_dressed")
    /\ attribute_counts["young"] >= TargetOf("young")
    /\ attribute_counts["well_dressed"] >= TargetOf("well_dressed")
    /\ TargetOf("young") > 0 /\ TargetOf("well_dressed") > 0
    /\ ~FillBelow(admitted_count, MAX_VENUE_CAPACITY(1), 900)
    /\ result.ret

\* The numbers of well_connected candidates a session may have encountered
\* before this call: those it admitted, the candidate itself when it is one,
\* and up to a full round of the skip counter more
EncounterCounts ==
    LET tally == Get(attribute_counts, "well_connected", 0)
        first == IF Carries("well_connected") THEN tally + 1 ELSE tally
    IN  first .. (first + P2.WELL_CONNECTED_SKIP_MODULO - 1)

\* The decision of the state's call in a session that has encountered w
\* well_connected candidates
DecisionAfterEncounters(w) ==
    should_accept_person(scenario, attributes, constraints, admitted_count,
                         attribute_counts, attribute_statistics, w)

\* C20 as stated: the decision depends on the candidate's attributes, the
\* constraints, the counters (admitted, rejected, tallies) and the
\* statistics only, so it is the same in every session that agrees on
\* these, whatever number of well_connected candidates arrived earlier.
C20_DecisionIgnoresEarlierCandidates ==
    Called => \A w \in EncounterCounts : DecisionAfterEncounters(w) = result

\* C20: the same for every candidate except a well_connected one of
\* scenario 2, whose decision may depend on how many well_connected
\* candidates the session has encountered.
C20_OnlyWellConnectedSeesEncounters ==
    (Called /\ ~(scenario = 2 /\ Carries("well_connected"))) =>
        \A w \in EncounterCounts : DecisionAfterEncounters(w) = result

\* A techno_lover of scenario 2 who is not well_connected, accepted by the
\* rule for techno_lover.
C20_Witness ==
    /\ pc = "update"
    /\ scenario = 2
    /\ Carries("techno_lover")
    /\ ~Carries("well_connected")
    /\ result.ret
    /\ result.line \in {556, 564, 570, 576, 580, 588}

-----------------------------------------------------------------------------
(* Saving the results *)

\* The elements of a sequence
Range(seq) == {seq[i] : i \in 1..Len(seq)}

\* Every run of main has saved its attempt and its leaderboard entry
AllSaved == \A p \in Runs : sessions[p].pc = "done"

\* The attempts of a game in the attempts file
SavedAttempts(game_id) ==
    LET saved == LoadJson(ATTEMPTS_FILE, << >>)
    IN  IF game_id \in DOMAIN saved THEN saved[game_id].attempts ELSE << >>

\* C21: when the concurrent runs of main have all finished, each has the
\* results its play_game returned, the attempt record of each is in the
\* attempts file, runs of the same game have distinct attempt numbers, and
\* the leaderboard entry of each is in the leaderboard file.
C21_ConcurrentRunsAllSaved ==
    AllSaved =>
        /\ \A p \in Runs :
              /\ sessions[p].results = sessions[p].played
              /\ sessions[p].attempt_record
                    \in Range(SavedAttempts(sessions[p].game_id))
              /\ sessions[p].entry \in Range(LoadJson(LEADERBOARD_FILE, << >>))
        /\ \A p \in Runs, q \in Runs :
              (p # q /\ sessions[p].game_id = sessions[q].game_id)
                  => sessions[p].attempt_number # sessions[q].attempt_number

-----------------------------------------------------------------------------
(* The end of a session *)

\* play_game has received a response that ends the session: a terminal
\* status, or no next person
ResponseEnds ==
    /\ pc # "start"
    /\ \/ response.status \in {"completed", "failed"}
       \/ response.nextPerson.isNone

\* C22: once play_game has received a terminal status or a response without
\* a next person, no step calls the policy or submits a decision, and what
\* play_game returns (the response's status and counts, the tallies and the
\* history) stays as it is at that response.
C22_NothingAfterLastResponse ==
    [][ResponseEnds =>
          /\ invoked' = invoked
          /\ submitted' = submitted
          /\ response' = response
          /\ attribute_counts' = attribute_counts
          /\ decision_history' = decision_history
          /\ pc' = "done"]_vars

\* The loop has ended on a response with status running and no next person
\* that answered a decision.
C22_Witness ==
    /\ pc = "done"
    /\ submitted # << >>
    /\ response.status = "running"
    /\ response.nextPerson.isNone
    /\ invoked = revealed

-----------------------------------------------------------------------------
(* The rules of scenario 1 *)

\* young_count / young_min is below the tolerance of the phase the fill
\* ratio is in: any progress below 0.4, 1.1 below 0.7, 1.2 below 0.9, 1.3 from
\* there on
YoungWithinTolerance ==
    LET cap == MAX_VENUE_CAPACITY(1)
        count == Get(attribute_counts, "young", 0)
        min == TargetOf("young")
    IN  IF FillBelow(admitted_count, cap, 400) THEN TRUE
        ELSE IF FillBelow(admitted_count, cap, 700) THEN ProgressBelow(count, min, 1100)
        ELSE IF FillBelow(admitted_count, cap, 900) THEN ProgressBelow(count, min, 1200)
        ELSE ProgressBelow(count, min, 1300)

\* C23: in scenario 1, while the venue is not full, a young candidate who is
\* not well_dressed is accepted exactly when the young progress is below the
\* tolerance of the phase.
C23_YoungAcceptedWithinTolerance ==
    (/\ Decided
     /\ scenario = 1
     /\ ~venue_is_full(1, admitted_count)
     /\ Carries("young") /\ ~Carries("well_dressed"))
        => (result.ret <=> YoungWithinTolerance)

-----------------------------------------------------------------------------
(* The skip strategy of scenario 2 *)

\* The candidate carries a and no other tracked attribute
CarriesOnly(a) ==
    \A b \in TrackedAttributes(scenario) : Carries(b) <=> b = a

\* The encounter numbers of EncounterCounts between the multiples of the
\* skip modulo
SkippedEncounters ==
    {w \in EncounterCounts : w % P2.WELL_CONNECTED_SKIP_MODULO # 0}

\* C24: in scenario 2, a candidate whose only tracked attribute is
\* well_connected and whose encounter number is not a multiple of 15 is
\* rejected unless the well_connected tally is below 10% of its target.
C24_SkippedUnlessFarBehind ==
    (/\ Decided
     /\ scenario = 2
     /\ CarriesOnly("well_connected")
     /\ ~(10 * Get(attribute_counts, "well_connected", 0) < TargetOf("well_connected")))
        => /\ well_connected_encountered % P2.WELL_CONNECTED_SKIP_MODULO # 0
                 => ~result.ret
           /\ \A w \in SkippedEncounters : ~DecisionAfterEncounters(w).ret

\* A skipped candidate reaches the skip strategy with creative and
\* well_connected both at a tenth of their targets or more, and is rejected
\* there
C24_Witness ==
    /\ Decided
    /\ scenario = 2
    /\ CarriesOnly("well_connected")
    /\ well_connected_encountered % P2.WELL_CONNECTED_SKIP_MODULO # 0
    /\ Get(attribute_counts, "creative", 0) >= TargetOf("creative")
    /\ Get(attribute_counts, "well_connected", 0) > 0
    /\ Get(attribute_counts, "well_connected", 0) < TargetOf("well_connected")
    /\ result = Return(FALSE, 719)

-----------------------------------------------------------------------------
(* The game information store *)

\* The games a directory holds, each with the gameId it is stored under: the
\* single game of an old format file, the values of a new format file
StoredGames(fs) ==
    IF GAME_INFO_FILE \notin DOMAIN fs \/ ~fs[GAME_INFO_FILE].valid THEN {}
    ELSE LET data == fs[GAME_INFO_FILE].data
         IN  IF IsOldFormat(data) THEN {<<data["gameId"].str, data>>}
             ELSE {<<k, data[k].dict>> : k \in {j \in DOMAIN data : "dict" \in DOMAIN data[j]}}

\* C25: after save_to_file(g) for a g with a gameId, load_game_info(g.gameId)
\* returns g and load_game_info of every other gameId a game was stored
\* under before, an old format game included, returns that game; after
\* save_to_file of a game without gameId the file is as it was.
C25_StoreRoundTrip ==
    LET saved == sessions.create_game
        loaded == sessions.play_game
        g == saved.game_info
    IN  saved.called =>
           IF Truthy(g["gameId"])
           THEN loaded.called =>
                   /\ loaded.game_id = g["gameId"].str => loaded.returned = g
                   /\ \A h \in StoredGames(saved.before) :
                         (h[1] # g["gameId"].str /\ loaded.game_id = h[1])
                             => loaded.returned = h[2]
           ELSE files = saved.before

\* An old format game was migrated by the save of another game and is
\* loaded again
C25_Witness ==
    LET saved == sessions.create_game
        loaded == sessions.play_game
    IN  /\ saved.called /\ loaded.called
        /\ Truthy(saved.game_info["gameId"])
        /\ GAME_INFO_FILE \in DOMAIN saved.before
        /\ saved.before[GAME_INFO_FILE].valid
        /\ IsOldFormat(saved.before[GAME_INFO_FILE].data)
        /\ loaded.game_id # saved.game_info["gameId"].str
        /\ loaded.returned = saved.before[GAME_INFO_FILE].data

\* C26: in scenario 1, while the venue is not full, a young candidate is
\* accepted whenever the young tally is below its positive target, at every
\* fill ratio: no call returns from the rejections of the below-target path
\* (lines 219, 226, 231).
C26_YoungBelowTargetAccepted ==
    (Decided /\ scenario = 1)
        => /\ (/\ VenueNotFull
               /\ Carries("young")
               /\ TargetOf("young") > 0
               /\ Get(attribute_counts, "young", 0) < TargetOf("young"))
                  => result.ret
           /\ result.line \notin {219, 226, 231}

\* A young candidate just below the target is accepted in the late game by
\* the last tolerance test
C26_Witness ==
    /\ Decided
    /\ scenario = 1
    /\ VenueNotFull
    /\ Carries("young") /\ ~Carries("well_dressed")
    /\ Get(attribute_counts, "young", 0) = TargetOf("young") - 1
    /\ ~FillBelow(admitted_count, MAX_VENUE_CAPACITY(1), 900)
    /\ result = Return(TRUE, 230)

-----------------------------------------------------------------------------
(* The statistics argument *)

\* Other well-formed statistics: frequencies alone, an empty correlation
\* table, and a table with every pair of the rules set to c (in permille)
OtherStatistics ==
    {[isNone |-> FALSE, keys |-> {"relativeFrequencies"}, correlations |-> << >>],
     [isNone |-> FALSE, keys |-> {"relativeFrequencies", "correlations"},
      correlations |-> << >>]}
    \cup {[isNone |-> FALSE, keys |-> {"relativeFrequencies", "correlations"},
           correlations |->
              [techno_lover |-> [berlin_local |-> c, well_connected |-> c],
               well_connected |-> [berlin_local |-> c],
               international |-> [german_speaker |-> c],
               young |-> [well_dressed |-> c]]] : c \in {-1000, 0, 1000}}

\* C27: in the three policies the statistics argument never influences a
\* decision: the call gives the same result with None, with an empty dict and
\* with any well-formed frequencies and correlation table.
C27_StatisticsNeverDecide ==
    Called =>
        \A stats \in {None, EmptyStatistics, GameStatistics(scenario)}
                        \cup OtherStatistics :
            ResultWithStatistics(stats) = result

\* A pair the correlations are quoted for is decided by its rule in a call
\* that was given the statistics of the game
C27_Witness ==
    /\ Decided
    /\ attribute_statistics = GameStatistics(scenario)
    /\ result.line \in ComboReturnLines(scenario)

-----------------------------------------------------------------------------
(* The hard rules of scenario 3 over a session *)

\* The number of decisions of the history that accepted
AcceptedIn(history) ==
    Cardinality({j \in 1..Len(history) : history[j].decision = "accepted"})

Tally(a) == Get(attribute_counts, a, 0)

-----------------------------------------------------------------------------
(* The history and the tallies *)

\* The records of the history that accepted a candidate carrying a
AcceptedCarrying(a) ==
    {j \in 1..Len(decision_history) :
        /\ decision_history[j].decision = "accepted"
        /\ Get(decision_history[j].attributes, a, FALSE)}

\* An iteration of the loop has ended, or none has begun
BetweenIterations == pc \in {"loop", "done"}

\* C29: at the end of every iteration of the loop of play_game,
\* decision_history holds one record for each submitted decision, in the
\* order of submission, and the tally of every attribute is the number of
\* records that accepted a candidate carrying it.
C29_HistoryMatchesTallies ==
    BetweenIterations =>
        /\ Len(decision_history) = Len(submitted)
        /\ \A j \in 1..Len(submitted) :
              /\ decision_history[j].personIndex = submitted[j][1]
              /\ (decision_history[j].decision = "accepted") <=> submitted[j][2]
              /\ decision_history[j].decision \in {"accepted", "rejected"}
        /\ \A a \in TrackedAttributes(scenario) \cup DOMAIN attribute_counts :
              Tally(a) = Cardinality(AcceptedCarrying(a))

\* An iteration ends with an accepted and a rejected candidate in the
\* history, the rejected one carrying an attribute
C29_Witness ==
    /\ BetweenIterations
    /\ \E j, k \in 1..Len(decision_history) :
          /\ decision_history[j].decision = "accepted"
          /\ decision_history[k].decision = "rejected"
          /\ \E a \in DOMAIN decision_history[k].attributes :
                decision_history[k].attributes[a]
    /\ \E a \in DOMAIN attribute_counts : attribute_counts[a] > 0

-----------------------------------------------------------------------------
(* The well_connected branch of scenario 2 once the target is met *)

\* The lines of the well_connected branch of scenario 2
WellConnectedBranch == 596..779

\* Every encounter number of a session at this call, and none
AnyEncounters == EncounterCounts \cup {0, well_connected_encountered}

\* C30: in scenario 2, a candidate whose only tracked attribute is
\* well_connected is never accepted once the well_connected tally has reached
\* its target, whatever the encounter number; and no berlin_local candidate
\* is decided inside the well_connected branch, so the exceptions for
\* berlin_local there never apply.
C30_WellConnectedOverTargetRejected ==
    (Decided /\ scenario = 2)
        => /\ (/\ CarriesOnly("well_connected")
               /\ Tally("well_connected") >= TargetOf("well_connected"))
                  => \A w \in AnyEncounters : ~DecisionAfterEncounters(w).ret
           /\ Carries("berlin_local")
                  => \A w \in AnyEncounters :
                        DecisionAfterEncounters(w).line \notin WellConnectedBranch

\* A candidate carrying only well_connected who is due under the skip
\* strategy is rejected by the early rejection with the venue half empty
C30_Witness ==
    /\ Decided
    /\ scenario = 2
    /\ CarriesOnly("well_connected")
    /\ Tally("well_connected") >= TargetOf("well_connected")
    /\ TargetOf("well_connected") > 0
    /\ well_connected_encountered % P2.WELL_CONNECTED_SKIP_MODULO = 0
    /\ admitted_count <= 500
    /\ result = Return(FALSE, 642)

=============================================================================
